---------------------------- MODULE Spec2Model ----------------------------
(***************************************************************************)
(* Typed signals of godot-core and the hot-reload connection registry.     *)
(*                                                                         *)
(* The host engine (objects, their signal connections, instance validity)  *)
(* is modelled at the boundary the Rust code calls into; the registry      *)
(* (signal_connections_registry.rs) and the connect paths of TypedSignal   *)
(* (typed_signal.rs) are translated from the source.                       *)
(***************************************************************************)
EXTENDS Integers, Sequences, FiniteSets, TLC

\* ------------------------------------------------------------------------
\* Bounds of the model

MaxCallables == 2
MaxHandles   == 3
MaxEmits     == 2
MaxCollections == 2
MaxTyped     == 2
MaxArity     == 4
MaxUntyped   == 2
MaxProbedArity == 11
MaxFields == 3

\* ------------------------------------------------------------------------
\* Domains

\* The objects of the host: one manually managed (Emitter::new_alloc(), dies
\* by an explicit free()) and one reference counted (RefCounted::new_gd(), dies
\* with its last strong reference).
Objects == {"emitter", "refcounted"}

IsRefCounted(o) == o = "refcounted"

\* Signals declared on an object: the Emitter class declares two of its own,
\* a RefCounted gets one through add_user_signal.
SignalsOf(o) ==
    IF IsRefCounted(o) THEN {"test_signal"} ELSE {"signal_int", "signal_unit"}

\* receiver_object: Option<Gd<Object>>
None == [some |-> FALSE, obj |-> "", hid |-> 0]
Some(o, h) == [some |-> TRUE, obj |-> o, hid |-> h]

VARIABLES
    safeguards_balanced, \* cfg(safeguards_balanced): which registry module is compiled in
    IS_EDITOR,           \* OnceLock<bool>: << >> while unset, else << the stored answer >>
    alive,               \* host: object id -> the instance still exists
    refCount,            \* host: reference counter of each object
    userHolds,           \* the application still holds its Gd of the object
    callables,           \* number of custom callables created so far (1 .. callables)
    connections,         \* host: connections in registration order
    connection_registry, \* Mutex<Vec<UnsafeConnectHandle>>
    nextHandle,          \* identity of the next weak handle clone_weak() returns
    dropCount,           \* weak handle -> number of drop_weak() calls on it
    lastOp,              \* the operation that ran last ("drain_again": a drain right after a drain)
    opLog,               \* host calls issued by the last registry operation
    invoked              \* callables invoked by the last emit, in order

vars == << safeguards_balanced, IS_EDITOR, alive, refCount, userHolds, callables,
           connections, connection_registry, nextHandle, dropCount, lastOp,
           opLog, invoked >>

hostVars == << alive, refCount, userHolds >>

\* State of the dispatch specification (SpecDispatch): what each custom
\* callable wraps and what its wrapped function has seen.
VARIABLES
    godot_fns,           \* callable -> the closure make_godot_fn wraps (NoFn: not created)
    received,            \* callable -> number of times its wrapped function was entered
    emitted,             \* callable -> emissions of its signal made while it was connected
    lastEmit,            \* the last emission: its arguments and the calls it delivered
    lastConnect          \* the host call the last builder connection made, and its configuration

dispatchVars == << godot_fns, received, emitted, lastEmit, lastConnect >>

\* State of the accessor specification (SpecAccessor): the option slots of the
\* signal collections and the typed signals taken out of them.
VARIABLES
    slots,               \* collection -> its Option slot: << >> for None, << o >> for Some(o)
    handles,             \* the TypedSignal values made so far
    outcome,             \* how the last extract ended: "returned" or the panic message
    untyped              \* the untyped Signal values made by to_untyped

accessorVars == << slots, handles, outcome, untyped >>

\* State of the threads specification (SpecThreads): threads inside the
\* registry's functions.
VARIABLES
    mutex,               \* holder of the lock of __GODOT_SIGNAL_CONNECTIONS_REGISTRY, "" if free
    pc,                  \* thread -> where it is inside a registry function
    local,               \* thread -> the locals of its call
    inserter,            \* weak handle -> the thread that pushed its entry
    disposer             \* weak handle -> the thread that called drop_weak() on it

threadVars == << mutex, pc, local, inserter, disposer >>

\* State of the receiver specification (SpecCall): a SignalReceiver called
\* directly.
VARIABLES
    invocation           \* the last SignalReceiver::call: its arguments and what it entered

receiverVars == << invocation >>

\* State of the derive specification (SpecDerive): one expansion of
\* #[derive(ClassExtension)].
VARIABLES
    named_fields,        \* the named fields of the struct, in declaration order
    fields,              \* the Fields value parse_fields returned, as it is now
    derived,             \* where derive_class_extension is: "start", "parsed", "sorted", "done"
    output               \* what derive_class_extension returned

deriveVars == << named_fields, fields, derived, output >>

\* Variables the registry specification (Spec) never touches.
extVars == << dispatchVars, accessorVars, threadVars, receiverVars, deriveVars >>

\* What each of the other specifications never touches outside vars.
notDispatch == << accessorVars, threadVars, receiverVars, deriveVars >>
notAccessor == << dispatchVars, threadVars, receiverVars, deriveVars >>
notThreads  == << dispatchVars, accessorVars, receiverVars, deriveVars >>
notDerive   == << dispatchVars, accessorVars, threadVars, receiverVars >>

\* ------------------------------------------------------------------------
\* Host engine primitives (Object::connect, disconnect, is_connected, ...)

Connection(o, sig, cb, flags) == [obj |-> o, sig |-> sig, cb |-> cb, flags |-> flags]

is_connected(conns, o, sig, cb) ==
    \E i \in 1 .. Len(conns) :
        conns[i].obj = o /\ conns[i].sig = sig /\ conns[i].cb = cb

\* Object::connect / connect_ex(..).done(): a pair already connected is refused.
connect(conns, o, sig, cb, flags) ==
    IF is_connected(conns, o, sig, cb)
    THEN conns
    ELSE Append(conns, Connection(o, sig, cb, flags))

KeepOthers(c, o, sig, cb) == ~(c.obj = o /\ c.sig = sig /\ c.cb = cb)

disconnect(conns, o, sig, cb) ==
    SelectSeq(conns, LAMBDA c : KeepOthers(c, o, sig, cb))

\* A destroyed object loses every connection of its signals.
DestroyObject(conns, o) == SelectSeq(conns, LAMBDA c : c.obj # o)

is_instance_valid(h) == h.some /\ alive[h.obj]

\* Callables connected to signal sig of object o, in delivery order.
RECURSIVE Receivers(_, _, _)
Receivers(conns, o, sig) ==
    IF conns = << >> THEN << >>
    ELSE IF Head(conns).obj = o /\ Head(conns).sig = sig
         THEN << Head(conns).cb >> \o Receivers(Tail(conns), o, sig)
         ELSE Receivers(Tail(conns), o, sig)

\* ------------------------------------------------------------------------
\* Log of the host calls one registry operation issues

Call(name, h, res) == [call |-> name, hid |-> h.hid, obj |-> h.obj, res |-> res]

Warn == [call |-> "godot_warn", hid |-> 0, obj |-> "", res |-> TRUE]

\* ------------------------------------------------------------------------
\* signal_connections_registry.rs

UnsafeConnectHandle(receiver_object, signal_name, callable) ==
    [receiver_object |-> receiver_object, signal_name |-> signal_name,
     callable |-> callable]

\* Mutant of RetainStep: a stale entry is removed but its handle is forgotten
\* instead of being given to drop_weak().
RetainStep_NoDropWeak(st, connection) ==
    IF ~connection.receiver_object.some
    THEN st
    ELSE IF ~is_instance_valid(connection.receiver_object)
         THEN [st EXCEPT
                 !.log = Append(st.log,
                                Call("is_instance_valid", connection.receiver_object, FALSE))]
         ELSE [st EXCEPT
                 !.log = Append(st.log,
                                Call("is_instance_valid", connection.receiver_object, TRUE)),
                 !.kept = Append(st.kept, connection)]

\* Mutant of RetainStep: the prune also checks the connection and removes the
\* entry of a valid receiver whose pair the host no longer holds.
RetainStep_ChecksConnection(st, connection) ==
    IF ~connection.receiver_object.some
    THEN st
    ELSE IF ~is_instance_valid(connection.receiver_object)
         THEN [st EXCEPT
                 !.log = st.log
                     \o << Call("is_instance_valid", connection.receiver_object, FALSE),
                           Call("drop_weak", connection.receiver_object, FALSE) >>,
                 !.drops = Append(st.drops, connection.receiver_object.hid)]
         ELSE IF ~is_connected(connections, connection.receiver_object.obj,
                               connection.signal_name, connection.callable)
              THEN [st EXCEPT
                      !.log = st.log
                          \o << Call("is_instance_valid", connection.receiver_object, TRUE),
                                Call("drop_weak", connection.receiver_object, TRUE) >>,
                      !.drops = Append(st.drops, connection.receiver_object.hid)]
              ELSE [st EXCEPT
                      !.log = Append(st.log,
                                     Call("is_instance_valid", connection.receiver_object, TRUE)),
                      !.kept = Append(st.kept, connection)]

\* The closure given to retain_mut: st carries the retained entries, the
\* handles given to drop_weak() and the host calls, in order.
RetainStep(st, connection) ==
    IF ~connection.receiver_object.some
    THEN st
    ELSE IF ~is_instance_valid(connection.receiver_object)
         THEN [st EXCEPT
                 !.log = st.log
                     \o << Call("is_instance_valid", connection.receiver_object, FALSE),
                           Call("drop_weak", connection.receiver_object, FALSE) >>,
                 !.drops = Append(st.drops, connection.receiver_object.hid)]
         ELSE [st EXCEPT
                 !.log = Append(st.log,
                                Call("is_instance_valid", connection.receiver_object, TRUE)),
                 !.kept = Append(st.kept, connection)]

RECURSIVE RetainMut(_, _)
RetainMut(st, rest) ==
    IF rest = << >> THEN st
    ELSE RetainMut(RetainStep(st, Head(rest)), Tail(rest))

\* Mutant of prune_stale_connections: the walk stops at the first entry it
\* removes, so later stale entries stay.
prune_stale_connections_FirstOnly(registry) ==
    LET stale == {i \in DOMAIN registry : ~is_instance_valid(registry[i].receiver_object)}
    IN  IF stale = {}
        THEN RetainMut([kept |-> << >>, drops |-> << >>, log |-> << >>], registry)
        ELSE LET first == CHOOSE i \in stale : \A k \in stale : i <= k
                 st    == RetainMut([kept |-> << >>, drops |-> << >>, log |-> << >>],
                                    SubSeq(registry, 1, first))
             IN  [st EXCEPT !.kept = st.kept \o SubSeq(registry, first + 1, Len(registry))]

prune_stale_connections(registry) ==
    RetainMut([kept |-> << >>, drops |-> << >>, log |-> << >>], registry)

\* Mutant of DrainStep: a connected entry is found connected but the
\* disconnect is not issued.
DrainStep_NoDisconnect(st, entry) ==
    IF ~entry.receiver_object.some
    THEN st
    ELSE IF ~is_instance_valid(entry.receiver_object)
         THEN [st EXCEPT
                 !.log = st.log
                     \o << Call("is_instance_valid", entry.receiver_object, FALSE),
                           Call("drop_weak", entry.receiver_object, FALSE) >>,
                 !.drops = Append(st.drops, entry.receiver_object.hid)]
         ELSE [st EXCEPT
                 !.log = st.log
                     \o << Call("is_instance_valid", entry.receiver_object, TRUE),
                           Call("is_connected", entry.receiver_object,
                                is_connected(st.conns, entry.receiver_object.obj,
                                             entry.signal_name, entry.callable)),
                           Call("drop_weak", entry.receiver_object, TRUE) >>,
                 !.drops = Append(st.drops, entry.receiver_object.hid)]

\* Mutant of DrainStep: the validity check is missing, every entry is asked
\* for its connection.
DrainStep_NoValidityCheck(st, entry) ==
    IF ~entry.receiver_object.some
    THEN st
    ELSE IF is_connected(st.conns, entry.receiver_object.obj,
                         entry.signal_name, entry.callable)
         THEN [st EXCEPT
                 !.conns = disconnect(st.conns, entry.receiver_object.obj,
                                      entry.signal_name, entry.callable),
                 !.log = st.log
                     \o << Call("is_connected", entry.receiver_object, TRUE),
                           Call("disconnect", entry.receiver_object, TRUE),
                           Call("drop_weak", entry.receiver_object, TRUE) >>,
                 !.drops = Append(st.drops, entry.receiver_object.hid)]
         ELSE [st EXCEPT
                 !.log = st.log
                     \o << Call("is_connected", entry.receiver_object, FALSE),
                           Call("drop_weak", entry.receiver_object, TRUE) >>,
                 !.drops = Append(st.drops, entry.receiver_object.hid)]

\* Mutant of DrainStep: the disconnect takes every callable off the entry's
\* signal, not only the entry's callable.
DrainStep_DisconnectsSignal(st, entry) ==
    IF ~entry.receiver_object.some
    THEN st
    ELSE IF ~is_instance_valid(entry.receiver_object)
         THEN [st EXCEPT
                 !.log = st.log
                     \o << Call("is_instance_valid", entry.receiver_object, FALSE),
                           Call("drop_weak", entry.receiver_object, FALSE) >>,
                 !.drops = Append(st.drops, entry.receiver_object.hid)]
         ELSE IF is_connected(st.conns, entry.receiver_object.obj,
                              entry.signal_name, entry.callable)
              THEN [st EXCEPT
                      !.conns = SelectSeq(st.conns,
                                          LAMBDA c : ~(/\ c.obj = entry.receiver_object.obj
                                                       /\ c.sig = entry.signal_name)),
                      !.log = st.log
                          \o << Call("is_instance_valid", entry.receiver_object, TRUE),
                                Call("is_connected", entry.receiver_object, TRUE),
                                Call("disconnect", entry.receiver_object, TRUE),
                                Call("drop_weak", entry.receiver_object, TRUE) >>,
                      !.drops = Append(st.drops, entry.receiver_object.hid)]
              ELSE [st EXCEPT
                      !.log = st.log
                          \o << Call("is_instance_valid", entry.receiver_object, TRUE),
                                Call("is_connected", entry.receiver_object, FALSE),
                                Call("drop_weak", entry.receiver_object, TRUE) >>,
                      !.drops = Append(st.drops, entry.receiver_object.hid)]

\* Mutant of DrainStep: the disconnect is issued for every valid receiver,
\* without asking the host whether the pair is connected.
DrainStep_AlwaysDisconnect(st, entry) ==
    IF ~entry.receiver_object.some
    THEN st
    ELSE IF ~is_instance_valid(entry.receiver_object)
         THEN [st EXCEPT
                 !.log = st.log
                     \o << Call("is_instance_valid", entry.receiver_object, FALSE),
                           Call("drop_weak", entry.receiver_object, FALSE) >>,
                 !.drops = Append(st.drops, entry.receiver_object.hid)]
         ELSE [st EXCEPT
                 !.conns = disconnect(st.conns, entry.receiver_object.obj,
                                      entry.signal_name, entry.callable),
                 !.log = st.log
                     \o << Call("is_instance_valid", entry.receiver_object, TRUE),
                           Call("disconnect", entry.receiver_object, TRUE),
                           Call("drop_weak", entry.receiver_object, TRUE) >>,
                 !.drops = Append(st.drops, entry.receiver_object.hid)]

\* Mutant of DrainStep: the handle of a valid receiver is disposed first and
\* asked for its connection afterwards.
DrainStep_DisposeFirst(st, entry) ==
    IF ~entry.receiver_object.some
    THEN st
    ELSE IF ~is_instance_valid(entry.receiver_object)
         THEN [st EXCEPT
                 !.log = st.log
                     \o << Call("is_instance_valid", entry.receiver_object, FALSE),
                           Call("drop_weak", entry.receiver_object, FALSE) >>,
                 !.drops = Append(st.drops, entry.receiver_object.hid)]
         ELSE IF is_connected(st.conns, entry.receiver_object.obj,
                              entry.signal_name, entry.callable)
              THEN [st EXCEPT
                      !.conns = disconnect(st.conns, entry.receiver_object.obj,
                                           entry.signal_name, entry.callable),
                      !.log = st.log
                          \o << Call("is_instance_valid", entry.receiver_object, TRUE),
                                Call("drop_weak", entry.receiver_object, TRUE),
                                Call("is_connected", entry.receiver_object, TRUE),
                                Call("disconnect", entry.receiver_object, TRUE) >>,
                      !.drops = Append(st.drops, entry.receiver_object.hid)]
              ELSE [st EXCEPT
                      !.log = st.log
                          \o << Call("is_instance_valid", entry.receiver_object, TRUE),
                                Call("drop_weak", entry.receiver_object, TRUE),
                                Call("is_connected", entry.receiver_object, FALSE) >>,
                      !.drops = Append(st.drops, entry.receiver_object.hid)]

\* Body of the loop over connection_registry.drain(..): st carries the host's
\* connections, the handles given to drop_weak() and the host calls.
DrainStep(st, entry) ==
    IF ~entry.receiver_object.some
    THEN st
    ELSE IF ~is_instance_valid(entry.receiver_object)
         THEN [st EXCEPT
                 !.log = st.log
                     \o << Call("is_instance_valid", entry.receiver_object, FALSE),
                           Call("drop_weak", entry.receiver_object, FALSE) >>,
                 !.drops = Append(st.drops, entry.receiver_object.hid)]
         ELSE IF is_connected(st.conns, entry.receiver_object.obj,
                              entry.signal_name, entry.callable)
              THEN [st EXCEPT
                      !.conns = disconnect(st.conns, entry.receiver_object.obj,
                                           entry.signal_name, entry.callable),
                      !.log = st.log
                          \o << Call("is_instance_valid", entry.receiver_object, TRUE),
                                Call("is_connected", entry.receiver_object, TRUE),
                                Call("disconnect", entry.receiver_object, TRUE),
                                Call("drop_weak", entry.receiver_object, TRUE) >>,
                      !.drops = Append(st.drops, entry.receiver_object.hid)]
              ELSE [st EXCEPT
                      !.log = st.log
                          \o << Call("is_instance_valid", entry.receiver_object, TRUE),
                                Call("is_connected", entry.receiver_object, FALSE),
                                Call("drop_weak", entry.receiver_object, TRUE) >>,
                      !.drops = Append(st.drops, entry.receiver_object.hid)]

RECURSIVE DrainLoop(_, _)
DrainLoop(st, rest) ==
    IF rest = << >> THEN st
    ELSE DrainLoop(DrainStep(st, Head(rest)), Tail(rest))

\* Number of times handle h occurs in a sequence of dropped handles.
RECURSIVE Occurrences(_, _)
Occurrences(drops, h) ==
    IF drops = << >> THEN 0
    ELSE (IF Head(drops) = h THEN 1 ELSE 0) + Occurrences(Tail(drops), h)

DropAll(drops) == [h \in 1 .. MaxHandles |-> dropCount[h] + Occurrences(drops, h)]

\* Mutant of clone_weak: the registry takes a strong reference (Gd::clone).
clone_strong(counts, o) ==
    IF IsRefCounted(o) THEN [counts EXCEPT ![o] = counts[o] + 1] ELSE counts

\* receiver_object.clone_weak(): a new handle, the reference counter untouched.
clone_weak(counts, o) == counts

\* Mutant of get_or_init: the initialiser runs on every call and its answer
\* replaces the stored one.
get_or_init_Always(cell, init) == << init >>

\* OnceLock::get_or_init: the cell after the call, init being what the
\* initialiser returns if it runs.
get_or_init(cell, init) == IF cell = << >> THEN << init >> ELSE cell

\* Mutant of NotEditor: the early return is never taken.
NotEditor_Never(cell) == FALSE

\* The test of `if !IS_EDITOR.get_or_init(..) { return; }` on the cell the
\* call leaves.
NotEditor(cell) == ~cell[1]

\* Mutant of store_signal_connection: a triple the registry already holds is
\* not stored again.
store_signal_connection_Dedup(receiver_object, signal_name, callable, hint) ==
    LET is_editor == get_or_init(IS_EDITOR, hint)
        pruned    == prune_stale_connections(connection_registry)
        held      == \E i \in DOMAIN pruned.kept :
                        /\ pruned.kept[i].receiver_object.obj = receiver_object
                        /\ pruned.kept[i].signal_name = signal_name
                        /\ pruned.kept[i].callable = callable
    IN  IF ~safeguards_balanced
        THEN /\ UNCHANGED << IS_EDITOR, connection_registry, nextHandle,
                             dropCount, refCount >>
             /\ opLog' = << >>
        ELSE IF NotEditor(is_editor)
        THEN /\ IS_EDITOR' = is_editor
             /\ UNCHANGED << connection_registry, nextHandle, dropCount, refCount >>
             /\ opLog' = << >>
        ELSE /\ IS_EDITOR' = is_editor
             /\ connection_registry' =
                    IF held THEN pruned.kept
                    ELSE Append(pruned.kept,
                                UnsafeConnectHandle(Some(receiver_object, nextHandle),
                                                    signal_name, callable))
             /\ refCount' = clone_weak(refCount, receiver_object)
             /\ nextHandle' = IF held THEN nextHandle ELSE nextHandle + 1
             /\ dropCount' = DropAll(pruned.drops)
             /\ opLog' = pruned.log

\* store_signal_connection (both cfg variants); hint is the answer
\* Engine::singleton().is_editor_hint() gives if it is asked.
store_signal_connection(receiver_object, signal_name, callable, hint) ==
    LET is_editor == get_or_init(IS_EDITOR, hint)
        pruned    == prune_stale_connections(connection_registry)
    IN  IF ~safeguards_balanced
        THEN /\ UNCHANGED << IS_EDITOR, connection_registry, nextHandle,
                             dropCount, refCount >>
             /\ opLog' = << >>
        ELSE IF NotEditor(is_editor)
        THEN /\ IS_EDITOR' = is_editor
             /\ UNCHANGED << connection_registry, nextHandle, dropCount, refCount >>
             /\ opLog' = << >>
        ELSE /\ IS_EDITOR' = is_editor
             /\ connection_registry' =
                    Append(pruned.kept,
                           UnsafeConnectHandle(Some(receiver_object, nextHandle),
                                               signal_name, callable))
             /\ refCount' = clone_weak(refCount, receiver_object)
             /\ nextHandle' = nextHandle + 1
             /\ dropCount' = DropAll(pruned.drops)
             /\ opLog' = pruned.log

\* Mutant of DrainAll: the is_empty() early return is missing.
DrainAll_NoEmptyCheck(reg, conns) ==
    LET st == DrainLoop([conns |-> conns, drops |-> << >>, log |-> << Warn >>], reg)
    IN  [registry |-> << >>, conns |-> st.conns, drops |-> st.drops, log |-> st.log]

\* Mutant of DrainAll: the sweep iterates over the entries without draining
\* the vector.
DrainAll_IterNotDrain(reg, conns) ==
    IF reg = << >>
    THEN [registry |-> reg, conns |-> conns, drops |-> << >>, log |-> << >>]
    ELSE LET st == DrainLoop([conns |-> conns, drops |-> << >>, log |-> << Warn >>], reg)
         IN  [registry |-> reg, conns |-> st.conns, drops |-> st.drops, log |-> st.log]

\* Mutant of DrainAll: the warning is issued by the first sweep only (no
\* handle disposed yet).
DrainAll_WarnsOnce(reg, conns) ==
    IF reg = << >>
    THEN [registry |-> reg, conns |-> conns, drops |-> << >>, log |-> << >>]
    ELSE LET warned == \E h \in 1 .. MaxHandles : dropCount[h] > 0
             st == DrainLoop([conns |-> conns, drops |-> << >>,
                              log |-> IF warned THEN << >> ELSE << Warn >>], reg)
         IN  [registry |-> << >>, conns |-> st.conns, drops |-> st.drops, log |-> st.log]

\* Mutant of DrainAll: the warning is issued after the sweep.
DrainAll_WarnAfterSweep(reg, conns) ==
    IF reg = << >>
    THEN [registry |-> reg, conns |-> conns, drops |-> << >>, log |-> << >>]
    ELSE LET st == DrainLoop([conns |-> conns, drops |-> << >>, log |-> << >>], reg)
         IN  [registry |-> << >>, conns |-> st.conns, drops |-> st.drops,
              log |-> Append(st.log, Warn)]

\* The safeguards_balanced body of prune_stored_signal_connections: the result
\* of the sweep over the registry reg with the host's connections conns.
DrainAll(reg, conns) ==
    IF reg = << >>
    THEN [registry |-> reg, conns |-> conns, drops |-> << >>, log |-> << >>]
    ELSE LET st == DrainLoop([conns |-> conns, drops |-> << >>, log |-> << Warn >>], reg)
         IN  [registry |-> << >>, conns |-> st.conns, drops |-> st.drops, log |-> st.log]

prune_stored_signal_connections ==
    IF ~safeguards_balanced
    THEN /\ UNCHANGED << connection_registry, connections, dropCount >>
         /\ opLog' = << >>
    ELSE LET r == DrainAll(connection_registry, connections)
         IN  /\ connection_registry' = r.registry
             /\ connections' = r.conns
             /\ dropCount' = DropAll(r.drops)
             /\ opLog' = r.log

\* ------------------------------------------------------------------------
\* typed_signal.rs

\* Callable::from_local_fn(&callable_name, godot_fn): the identity of the new
\* custom callable; no two calls return equal callables.
from_local_fn(created) == created + 1

\* Mutant of inner_connect_godot_fn: the callable made for a function is kept
\* and connected again when a function is connected a second time.
inner_connect_godot_fn_ReusesCallable(o, sig) ==
    /\ callables' = IF callables = 0 THEN from_local_fn(callables) ELSE callables
    /\ connections' = connect(connections, o, sig,
                              IF callables = 0 THEN from_local_fn(callables) ELSE callables,
                              0)

\* TypedSignal::inner_connect_godot_fn
inner_connect_godot_fn(o, sig) ==
    /\ callables' = from_local_fn(callables)
    /\ connections' = connect(connections, o, sig, from_local_fn(callables), 0)

\* ConnectFlags: a bitfield of the host, a set of its bits here.
ConnectFlagBits == {"DEFERRED", "PERSIST", "ONE_SHOT", "REFERENCE_COUNTED"}

BitValue(bit) ==
    IF bit = "DEFERRED" THEN 1
    ELSE IF bit = "PERSIST" THEN 2
    ELSE IF bit = "ONE_SHOT" THEN 4
    ELSE 8

\* ConnectFlags::ord: the integer of the bitfield. The cast `as u32` that
\* follows keeps every value a ConnectFlags can have.
RECURSIVE ord(_)
ord(flags) ==
    IF flags = {} THEN 0
    ELSE LET bit == CHOOSE b \in flags : TRUE
         IN  BitValue(bit) + ord(flags \ {bit})

\* obj.connect_ex(signal, callable): the host call under construction; flags
\* is << >> until flags() is called on it.
connect_ex(signal, callable) == [signal |-> signal, callable |-> callable, flags |-> << >>]

\* ExConnect::flags
ExConnect_flags(c, flags) == [c EXCEPT !.flags = << flags >>]

\* ExConnect::done: the host connects with the flags given, 0 if none were.
ExConnect_done(conns, o, c) ==
    connect(conns, o, c.signal, c.callable, IF c.flags = << >> THEN 0 ELSE c.flags[1])

\* Mutant of untyped_call: flags() is always called, with 0 when the builder
\* has none.
untyped_call_AlwaysFlags(sig, callable, flags) ==
    ExConnect_flags(connect_ex(sig, callable),
                    IF flags = << >> THEN 0 ELSE ord(flags[1]))

\* The host call inner_connect_untyped builds: connect_ex(..), and
\* flags(flags.ord() as u32) if flags is Some.
untyped_call(sig, callable, flags) ==
    IF flags = << >>
    THEN connect_ex(sig, callable)
    ELSE ExConnect_flags(connect_ex(sig, callable), ord(flags[1]))

NoConnect == [configured |-> << >>, call |-> connect_ex("", 0)]

\* Mutant of inner_connect_untyped: without flags the connection is made
\* deferred (flags 1) instead of with the host's default.
inner_connect_untyped_DeferredDefault(o, sig, callable, flags) ==
    connections' = connect(connections, o, sig, callable,
                           IF flags = << >> THEN 1 ELSE ord(flags[1]))

\* TypedSignal::inner_connect_untyped: flags is an Option, << >> for None and
\* << f >> for Some(f).
inner_connect_untyped(o, sig, callable, flags) ==
    connections' = ExConnect_done(connections, o, untyped_call(sig, callable, flags))

\* ------------------------------------------------------------------------
\* variadic.rs: the receiver abstraction

\* The instance argument I of SignalReceiver<I, Ps>: (), &C or &mut C.
NoInstance == [shape |-> "unit", obj |-> ""]
Ref(o)     == [shape |-> "ref", obj |-> o]
RefMut(o)  == [shape |-> "mut", obj |-> o]

\* $($args,)*: the macro's arg0, arg1, ... bound to the fields of the
\* parameter tuple by the pattern ($($args,)*), then passed on in that order.
RECURSIVE Args(_, _)
Args(params, i) ==
    IF i > Len(params) THEN << >>
    ELSE << params[i] >> \o Args(params, i + 1)

\* impl SignalReceiver<(), Ps> for F: self($($args,)*). The value is the
\* entries into the wrapped function, each the parameter list it is entered with.
call_unit(params) == << Args(params, 1) >>

\* Mutant of call_mut: the instance is passed after the arguments.
call_mut_InstanceLast(instance, params) == << Args(params, 1) \o << instance.obj >> >>

\* impl SignalReceiver<&mut C, Ps> for F: self(instance, $($args,)*)
call_mut(instance, params) == << << instance.obj >> \o Args(params, 1) >>

\* impl SignalReceiver<&C, Ps> for F: self(instance, $($args,)*)
call_ref(instance, params) == << << instance.obj >> \o Args(params, 1) >>

\* Mutant of impl_signal_recipient: the last invocation of the macro is
\* missing.
impl_signal_recipient_WithoutLast == << 0, 1, 2, 3, 4, 5, 6, 7, 8, 9 >>

\* The invocations of impl_signal_recipient!, each by the number of
\* `argN: PN` pairs it is given: (), (arg0: P0), ..., (arg0: P0, ..., arg9: P9).
impl_signal_recipient == << 0, 1, 2, 3, 4, 5, 6, 7, 8, 9, 10 >>

\* An impl of SignalReceiver<I, Ps> exists for parameter tuples of n fields;
\* every invocation of the macro makes the impls of all three shapes.
Implemented(n) ==
    \E k \in DOMAIN impl_signal_recipient : impl_signal_recipient[k] = n

\* SignalReceiver::call, resolved by the type of maybe_instance
call(maybe_instance, params) ==
    CASE maybe_instance.shape = "unit" -> call_unit(params)
      [] maybe_instance.shape = "mut"  -> call_mut(maybe_instance, params)
      [] maybe_instance.shape = "ref"  -> call_ref(maybe_instance, params)

\* ------------------------------------------------------------------------
\* Custom callables and their delivery

\* Values a signal argument takes.
ArgValues == {"987", "552"}

\* #[signal] fn signal_unit(); #[signal] fn signal_int(arg1: i64);
Arity(sig) == IF sig = "signal_unit" THEN 0 ELSE 1

\* The parameter tuples Ps of a signal.
ParamTuples(sig) == [1 .. Arity(sig) -> ArgValues]

\* args.to_variant_array() and the conversion back make_godot_fn applies
\* before it calls the closure.
to_variant_array(args) == [i \in DOMAIN args |-> [variant |-> "INT", value |-> args[i]]]
from_variant_array(varargs) == [i \in DOMAIN varargs |-> varargs[i].value]

\* What a custom callable wraps: the instance it binds when invoked and
\* whether the user's function panics once entered.
NoFn == [kind |-> "none", instance |-> NoInstance, panics |-> FALSE, sync |-> FALSE]
GodotFn(kind, instance, panics, sync) ==
    [kind |-> kind, instance |-> instance, panics |-> panics, sync |-> sync]

\* Mutant of godot_fn: the closure calls the receiver twice.
godot_fn_CallsTwice(gf, varargs) ==
    call(gf.instance, from_variant_array(varargs))
        \o call(gf.instance, from_variant_array(varargs))

\* The closure given to make_godot_fn: |args| function.call(instance, args)
godot_fn(gf, varargs) == call(gf.instance, from_variant_array(varargs))

\* Mutant of invoke_callable: the panic of the closure is not caught.
invoke_callable_NoCatch(gf, varargs) ==
    [entries |-> godot_fn(gf, varargs), unwound |-> gf.panics]

\* Invocation of a custom callable by the host: the entries into the user's
\* function and whether a panic leaves the callable. The callable made by
\* Callable::from_local_fn catches the panic of its closure.
invoke_callable(gf, varargs) ==
    [entries |-> godot_fn(gf, varargs), unwound |-> FALSE]

\* Object::emit_signal: the host invokes the connected callables in order; st
\* carries the calls delivered so far.
RECURSIVE Deliver(_, _, _)
Deliver(st, rcv, varargs) ==
    IF rcv = << >> \/ st.unwound THEN st
    ELSE LET r == invoke_callable(godot_fns[Head(rcv)], varargs)
         IN  Deliver([calls |-> st.calls
                          \o [i \in DOMAIN r.entries |->
                                 [cb |-> Head(rcv), actual |-> r.entries[i]]],
                      unwound |-> r.unwound],
                     Tail(rcv), varargs)

\* Number of calls of callable cb among calls.
RECURSIVE CallsOf(_, _)
CallsOf(calls, cb) ==
    IF calls = << >> THEN 0
    ELSE (IF Head(calls).cb = cb THEN 1 ELSE 0) + CallsOf(Tail(calls), cb)

\* The objects of the dispatch specifications and the field a method of
\* theirs writes (Emitter::last_received_int, Receiver::last_received):
\* << >> while this emission has not written it, << args >> once a method was
\* entered on the object with args.
Untouched == [o \in {"emitter", "receiver"} |-> << >>]

\* Emitter::self_receive, Receiver::receive_int_mut, ...: a method entered
\* with `actual` stores its arguments in the object it was handed; a plain
\* function is handed no object.
RECURSIVE Written(_, _)
Written(w, calls) ==
    IF calls = << >> THEN w
    ELSE LET c == Head(calls)
         IN  Written(IF godot_fns[c.cb].instance.shape = "unit" THEN w
                     ELSE [w EXCEPT ![Head(c.actual)] = << Tail(c.actual) >>],
                     Tail(calls))

NoEmit == [obj |-> "", sig |-> "", args |-> << >>, calls |-> << >>, unwound |-> FALSE,
           written |-> Untouched]

\* How an extract ended: kind is "returned" or "panic"; collection is the
\* collection it was called on.
NoOutcome == [kind |-> "none", collection |-> 0, signal_name |-> "", message |-> ""]

\* The accessor variables before any signals() call.
AccessorIdle ==
    /\ slots = << >>
    /\ handles = << >>
    /\ outcome = NoOutcome
    /\ untyped = << >>

Threads == {"main", "worker"}

NoLocal == [obj |-> "", sig |-> "", cb |-> 0, kept |-> << >>]

\* The thread variables while no thread is inside the registry.
ThreadsIdle ==
    /\ mutex = ""
    /\ pc = [t \in Threads |-> "idle"]
    /\ local = [t \in Threads |-> NoLocal]
    /\ inserter = [h \in 1 .. MaxHandles |-> ""]
    /\ disposer = [h \in 1 .. MaxHandles |-> ""]

\* The dispatch variables before any callable exists.
DispatchIdle ==
    /\ godot_fns = [cb \in 1 .. MaxCallables |-> NoFn]
    /\ received = [cb \in 1 .. MaxCallables |-> 0]
    /\ emitted = [cb \in 1 .. MaxCallables |-> 0]
    /\ lastEmit = NoEmit
    /\ lastConnect = NoConnect

NoCall == [instance |-> NoInstance, params |-> << >>, resolved |-> FALSE,
           entries |-> << >>]

\* Fields before parse_fields has run.
NoFields == [groups |-> << >>, all_fields |-> << >>, errors |-> << >>]

\* ParseResult<TokenStream>: derive_class_extension has not returned, returned
\* Ok(tokens), returned Err(error).
NoOutput == [result |-> "", tokens |-> << >>]
Ok(tokens) == [result |-> "Ok", tokens |-> tokens]
Err(error) == [result |-> "Err", tokens |-> << error >>]

\* The derive variables while no macro is expanded.
DeriveIdle ==
    /\ named_fields = << >>
    /\ fields = NoFields
    /\ derived = "start"
    /\ output = NoOutput

\* The state outside the registry specification at start.
ExtIdle ==
    DispatchIdle /\ AccessorIdle /\ ThreadsIdle /\ invocation = NoCall /\ DeriveIdle

\* ------------------------------------------------------------------------
\* Operations

\* What every operation outside the registry leaves alone.
RegistryUntouched ==
    UNCHANGED << IS_EDITOR, connection_registry, nextHandle, dropCount >>

\* TypedSignal::connect. No connect path of typed_signal.rs calls
\* store_signal_connection.
Connect(o, sig) ==
    /\ UNCHANGED extVars
    /\ alive[o] /\ userHolds[o]
    /\ callables < MaxCallables
    /\ inner_connect_godot_fn(o, sig)
    /\ lastOp' = "connect"
    /\ opLog' = << >> /\ invoked' = << >>
    /\ RegistryUntouched
    /\ UNCHANGED << safeguards_balanced, hostVars >>

\* TypedSignal::connect_self. The receiver is a user class with a base field;
\* the callable keeps a Gd of it, which does not decide the lifetime of a
\* manually managed object, the only kind connected this way here.
ConnectSelf(o, sig) ==
    /\ UNCHANGED extVars
    /\ alive[o] /\ userHolds[o] /\ ~IsRefCounted(o)
    /\ callables < MaxCallables
    /\ inner_connect_godot_fn(o, sig)
    /\ lastOp' = "connect"
    /\ opLog' = << >> /\ invoked' = << >>
    /\ RegistryUntouched
    /\ UNCHANGED << safeguards_balanced, hostVars >>

\* TypedSignal::connect_obj: other is the (manually managed) object the method
\* is called on.
ConnectObj(o, sig, other) ==
    /\ UNCHANGED extVars
    /\ alive[o] /\ userHolds[o]
    /\ alive[other] /\ userHolds[other] /\ ~IsRefCounted(other)
    /\ callables < MaxCallables
    /\ inner_connect_godot_fn(o, sig)
    /\ lastOp' = "connect"
    /\ opLog' = << >> /\ invoked' = << >>
    /\ RegistryUntouched
    /\ UNCHANGED << safeguards_balanced, hostVars >>

\* ConnectBuilder::done: builds the callable, connects it through
\* inner_connect_untyped and records the connection.
ConnectBuilderDone(o, sig, hint) ==
    /\ UNCHANGED extVars
    /\ alive[o] /\ userHolds[o]
    /\ callables < MaxCallables
    /\ nextHandle <= MaxHandles
    /\ callables' = from_local_fn(callables)
    /\ inner_connect_untyped(o, sig, from_local_fn(callables), << >>)
    /\ store_signal_connection(o, sig, from_local_fn(callables), hint)
    /\ lastOp' = "done"
    /\ invoked' = << >>
    /\ UNCHANGED << safeguards_balanced, alive, userHolds >>

\* store_signal_connection called for a connection the host holds
Record(o, sig, cb, hint) ==
    /\ UNCHANGED extVars
    /\ alive[o] /\ userHolds[o]
    /\ is_connected(connections, o, sig, cb)
    /\ nextHandle <= MaxHandles
    /\ store_signal_connection(o, sig, cb, hint)
    /\ lastOp' = "record"
    /\ invoked' = << >>
    /\ UNCHANGED << safeguards_balanced, alive, userHolds, callables,
                    connections >>

\* prune_stored_signal_connections, run by the host when a reload begins
Drain ==
    /\ UNCHANGED extVars
    /\ prune_stored_signal_connections
    /\ lastOp' = IF lastOp \in {"drain", "drain_again"} THEN "drain_again" ELSE "drain"
    /\ invoked' = << >>
    /\ UNCHANGED << safeguards_balanced, IS_EDITOR, hostVars, callables, nextHandle >>

\* Mutant of EmitTuple: the emit also prunes the registry.
EmitTuple_Prunes(o, sig) ==
    LET pruned == prune_stale_connections(connection_registry)
    IN  /\ UNCHANGED extVars
        /\ alive[o] /\ userHolds[o]
        /\ invoked' = Receivers(connections, o, sig)
        /\ lastOp' = "emit"
        /\ opLog' = pruned.log
        /\ connection_registry' = pruned.kept
        /\ dropCount' = DropAll(pruned.drops)
        /\ UNCHANGED << IS_EDITOR, nextHandle >>
        /\ UNCHANGED << safeguards_balanced, hostVars, callables, connections >>

\* TypedSignal::emit_tuple
EmitTuple(o, sig) ==
    /\ UNCHANGED extVars
    /\ alive[o] /\ userHolds[o]
    /\ invoked' = Receivers(connections, o, sig)
    /\ lastOp' = "emit"
    /\ opLog' = << >>
    /\ RegistryUntouched
    /\ UNCHANGED << safeguards_balanced, hostVars, callables, connections >>

\* Object::disconnect called by the application
Disconnect(o, sig, cb) ==
    /\ UNCHANGED extVars
    /\ alive[o] /\ userHolds[o]
    /\ is_connected(connections, o, sig, cb)
    /\ connections' = disconnect(connections, o, sig, cb)
    /\ lastOp' = "disconnect"
    /\ opLog' = << >> /\ invoked' = << >>
    /\ RegistryUntouched
    /\ UNCHANGED << safeguards_balanced, hostVars, callables >>

\* Gd::free() of a manually managed object
Free(o) ==
    /\ UNCHANGED extVars
    /\ alive[o] /\ userHolds[o] /\ ~IsRefCounted(o)
    /\ alive' = [alive EXCEPT ![o] = FALSE]
    /\ userHolds' = [userHolds EXCEPT ![o] = FALSE]
    /\ connections' = DestroyObject(connections, o)
    /\ lastOp' = "free"
    /\ opLog' = << >> /\ invoked' = << >>
    /\ RegistryUntouched
    /\ UNCHANGED << safeguards_balanced, refCount, callables >>

\* drop(Gd<RefCounted>): the application gives up its strong reference
DropGd(o) ==
    /\ UNCHANGED extVars
    /\ alive[o] /\ userHolds[o] /\ IsRefCounted(o)
    /\ userHolds' = [userHolds EXCEPT ![o] = FALSE]
    /\ refCount' = [refCount EXCEPT ![o] = refCount[o] - 1]
    /\ alive' = [alive EXCEPT ![o] = refCount[o] - 1 > 0]
    /\ connections' = IF refCount[o] - 1 > 0 THEN connections
                      ELSE DestroyObject(connections, o)
    /\ lastOp' = "drop"
    /\ opLog' = << >> /\ invoked' = << >>
    /\ RegistryUntouched
    /\ UNCHANGED << safeguards_balanced, callables >>

\* ------------------------------------------------------------------------
\* Operations of the dispatch specification: one emitter (Emitter::new_alloc()),
\* its typed signals, and a second object (Receiver::new_alloc()) whose methods
\* are connected; the receiver lives as long as its connections.

Emitter  == "emitter"
Receiver == "receiver"

\* ConnectBuilder: the configuration a chain of builder calls leaves.
ConnectBuilder_new == [sync |-> FALSE, connect_flags |-> << >>]

\* ConnectBuilder::sync
builder_sync(b) == [b EXCEPT !.sync = TRUE]

\* ConnectBuilder::flags
builder_flags(b, f) == [b EXCEPT !.connect_flags = << f >>]

builder_step(b, step) ==
    IF step.axis = "sync" THEN builder_sync(b) ELSE builder_flags(b, step.value)

RECURSIVE Configure(_, _)
Configure(b, chain) ==
    IF chain = << >> THEN b
    ELSE Configure(builder_step(b, Head(chain)), Tail(chain))

SyncStep  == [axis |-> "sync", value |-> {}]
FlagsStep == [axis |-> "flags", value |-> {"PERSIST"}]

\* The builder calls made between the choice of the function and done().
BuilderChains ==
    {<< >>, << SyncStep >>, << FlagsStep >>,
     << SyncStep, FlagsStep >>, << FlagsStep, SyncStep >>}

\* The flags the flags specification configures: bits that do not alter how
\* the host delivers an emission.
FlagChoices == {{"PERSIST"}, {"REFERENCE_COUNTED"}, {"PERSIST", "REFERENCE_COUNTED"}}

\* Builder chains with no flags() call or one.
FlagChains ==
    {<< >>} \cup {<< [axis |-> "flags", value |-> f] >> : f \in FlagChoices}

\* The name of the call chain that made a callable.
BuilderKind(chain) ==
    IF chain = << >> THEN "builder"
    ELSE IF Len(chain) = 1
         THEN (IF chain[1].axis = "sync" THEN "builder.sync" ELSE "builder.flags")
         ELSE (IF chain[1].axis = "sync" THEN "builder.sync.flags"
               ELSE "builder.flags.sync")

\* The instances a builder connection binds: function(f),
\* object_self().method_mut(m), object(&o).method_mut(m), object(&o).method_immut(m)
BuilderInstances == {NoInstance, RefMut(Emitter), RefMut(Receiver), Ref(Receiver)}

\* What a connect of the dispatch specification leaves alone.
ConnectFrame ==
    /\ lastOp' = "connect"
    /\ opLog' = << >> /\ invoked' = << >>
    /\ lastEmit' = NoEmit
    /\ lastConnect' = NoConnect
    /\ RegistryUntouched
    /\ UNCHANGED << safeguards_balanced, hostVars, received, emitted >>
    /\ UNCHANGED notDispatch

\* TypedSignal::connect: |args| function.call((), args)
ConnectFn(sig) ==
    /\ alive[Emitter] /\ userHolds[Emitter]
    /\ callables < MaxCallables
    /\ inner_connect_godot_fn(Emitter, sig)
    /\ godot_fns' = [godot_fns EXCEPT ![from_local_fn(callables)] =
                        GodotFn("connect", NoInstance, FALSE, FALSE)]
    /\ ConnectFrame

\* TypedSignal::connect_self: gd = self.receiver_object(); the closure binds
\* gd mutably and calls function.call(instance, args)
ConnectSelfMethod(sig) ==
    /\ alive[Emitter] /\ userHolds[Emitter]
    /\ callables < MaxCallables
    /\ inner_connect_godot_fn(Emitter, sig)
    /\ godot_fns' = [godot_fns EXCEPT ![from_local_fn(callables)] =
                        GodotFn("connect_self", RefMut(Emitter), FALSE, FALSE)]
    /\ ConnectFrame

\* Mutant of ConnectObjMethod: the closure binds the owner of the signal, as
\* connect_self does, instead of the object it was given.
ConnectObjMethod_BindsOwner(sig, object) ==
    /\ alive[Emitter] /\ userHolds[Emitter]
    /\ callables < MaxCallables
    /\ inner_connect_godot_fn(Emitter, sig)
    /\ godot_fns' = [godot_fns EXCEPT ![from_local_fn(callables)] =
                        GodotFn("connect_obj", RefMut(Emitter), FALSE, FALSE)]
    /\ ConnectFrame

\* TypedSignal::connect_obj: gd = object.to_signal_obj(); the closure binds gd
\* mutably and calls method.call(instance, args)
ConnectObjMethod(sig, object) ==
    /\ alive[Emitter] /\ userHolds[Emitter]
    /\ callables < MaxCallables
    /\ inner_connect_godot_fn(Emitter, sig)
    /\ godot_fns' = [godot_fns EXCEPT ![from_local_fn(callables)] =
                        GodotFn("connect_obj", RefMut(object), FALSE, FALSE)]
    /\ ConnectFrame

\* connect_builder() ... done(): the callable is built as by the connect
\* methods, connected through inner_connect_untyped and recorded.
BuilderDone(sig, instance, chain) ==
    LET b == Configure(ConnectBuilder_new, chain)
    IN  /\ alive[Emitter] /\ userHolds[Emitter]
        /\ callables < MaxCallables
        /\ callables' = from_local_fn(callables)
        /\ inner_connect_untyped(Emitter, sig, from_local_fn(callables), b.connect_flags)
        /\ store_signal_connection(Emitter, sig, from_local_fn(callables), TRUE)
        /\ godot_fns' = [godot_fns EXCEPT ![from_local_fn(callables)] =
                            GodotFn(BuilderKind(chain), instance, FALSE, b.sync)]
        /\ lastOp' = "done"
        /\ invoked' = << >>
        /\ lastEmit' = NoEmit
        /\ lastConnect' = [configured |-> b.connect_flags,
                           call |-> untyped_call(sig, from_local_fn(callables),
                                                 b.connect_flags)]
        /\ UNCHANGED << safeguards_balanced, alive, userHolds, received, emitted >>
        /\ UNCHANGED notDispatch

\* Signal::from_object_signal(&node, signal).connect(&callable, 0) with a
\* callable made by Callable::from_local_fn whose closure may panic.
SignalConnect(sig, panics) ==
    /\ alive[Emitter] /\ userHolds[Emitter]
    /\ callables < MaxCallables
    /\ callables' = from_local_fn(callables)
    /\ connections' = connect(connections, Emitter, sig, from_local_fn(callables), 0)
    /\ godot_fns' = [godot_fns EXCEPT ![from_local_fn(callables)] =
                        GodotFn("callable", NoInstance, panics, FALSE)]
    /\ ConnectFrame

\* TypedSignal::emit_tuple with the callables' closures run by the host
EmitArgs(sig, args) ==
    /\ alive[Emitter] /\ userHolds[Emitter]
    /\ \A cb \in 1 .. MaxCallables : emitted[cb] < MaxEmits
    /\ LET rcv == Receivers(connections, Emitter, sig)
           st  == Deliver([calls |-> << >>, unwound |-> FALSE], rcv,
                          to_variant_array(args))
       IN  /\ received' = [cb \in 1 .. MaxCallables |->
                              received[cb] + CallsOf(st.calls, cb)]
           /\ emitted' = [cb \in 1 .. MaxCallables |->
                             emitted[cb]
                               + (IF is_connected(connections, Emitter, sig, cb)
                                  THEN 1 ELSE 0)]
           /\ lastEmit' = [obj |-> Emitter, sig |-> sig, args |-> args,
                           calls |-> st.calls, unwound |-> st.unwound,
                           written |-> Written(Untouched, st.calls)]
           /\ invoked' = [i \in DOMAIN st.calls |-> st.calls[i].cb]
    /\ lastConnect' = NoConnect
    /\ lastOp' = "emit"
    /\ opLog' = << >>
    /\ RegistryUntouched
    /\ UNCHANGED << safeguards_balanced, hostVars, callables, connections, godot_fns >>
    /\ UNCHANGED notDispatch

\* ------------------------------------------------------------------------
\* Operations of the accessor specification: signal collections, each with the
\* Option slot its signal accessors hand to TypedSignal::extract.

\* The message of the panic in extract.
OneSignalAtATime ==
    "call failed; signals() allows only one signal configuration at a time"

\* Mutant of take: the slot is read but keeps its value.
take_Clone(opt) == [taken |-> opt, left |-> opt]

\* Option::take: the value moved out and what the option holds afterwards.
take(opt) == [taken |-> opt, left |-> << >>]

\* TypedSignal::new
new(object, name) == [object |-> object, name |-> name]

\* Mutant of extract: an empty slot yields a handle on a default object instead
\* of a panic.
extract_UnwrapOrDefault(obj, signal_name) ==
    LET t == take(obj)
    IN  [slot |-> t.left, panicked |-> FALSE, message |-> "",
         signal |-> << new(IF t.taken = << >> THEN "" ELSE t.taken[1], signal_name) >>]

\* TypedSignal::extract: the slot it leaves, whether it panicked, and the
\* TypedSignal it returned (a sequence of at most one).
extract(obj, signal_name) ==
    LET t == take(obj)
    IN  IF t.taken = << >>
        THEN [slot |-> t.left, panicked |-> TRUE, message |-> OneSignalAtATime,
              signal |-> << >>]
        ELSE [slot |-> t.left, panicked |-> FALSE, message |-> "",
              signal |-> << new(t.taken[1], signal_name) >>]

\* object.signals(): a new collection whose slot holds the object.
Signals(o) ==
    /\ Len(slots) < MaxCollections
    /\ slots' = Append(slots, [owner |-> o, internal_obj |-> << o >>])
    /\ lastOp' = "signals"
    /\ UNCHANGED << handles, outcome, untyped >>
    /\ UNCHANGED << safeguards_balanced, IS_EDITOR, hostVars, callables, connections,
                    connection_registry, nextHandle, dropCount, opLog, invoked >>
    /\ UNCHANGED notAccessor

\* collection.<signal_name>(): TypedSignal::extract on the slot of collection c.
\* from, the collection a TypedSignal came out of, and live are kept for the
\* properties; the TypedSignal itself holds the object and the name only.
Extract(c, signal_name) ==
    LET r == extract(slots[c].internal_obj, signal_name)
    IN  /\ Len(handles) < MaxTyped
        /\ slots' = [slots EXCEPT ![c].internal_obj = r.slot]
        /\ handles' = handles
               \o [i \in DOMAIN r.signal |->
                      [object |-> r.signal[i].object, name |-> r.signal[i].name,
                       from |-> c, live |-> TRUE]]
        /\ outcome' = [kind |-> IF r.panicked THEN "panic" ELSE "returned",
                       collection |-> c, signal_name |-> signal_name,
                       message |-> r.message]
        /\ lastOp' = "extract"
        /\ UNCHANGED untyped
        /\ UNCHANGED << safeguards_balanced, IS_EDITOR, hostVars, callables, connections,
                        connection_registry, nextHandle, dropCount, opLog, invoked >>
        /\ UNCHANGED notAccessor

\* The TypedSignal goes out of scope. It has no Drop and holds no reference to
\* the slot it was taken from: the slot stays as it is.
DropTypedSignal(h) ==
    /\ handles[h].live
    /\ handles' = [handles EXCEPT ![h].live = FALSE]
    /\ lastOp' = "drop_signal"
    /\ UNCHANGED << slots, outcome, untyped >>
    /\ UNCHANGED << safeguards_balanced, IS_EDITOR, hostVars, callables, connections,
                    connection_registry, nextHandle, dropCount, opLog, invoked >>
    /\ UNCHANGED notAccessor

\* Gd::instance_id: the id the host gave the object.
instance_id(o) == IF IsRefCounted(o) THEN 2 ELSE 1

\* The object the host finds under an id: << >> once it is destroyed.
instance_from_id(id) ==
    LET o == CHOOSE x \in Objects : instance_id(x) = id
    IN  IF alive[o] THEN << o >> ELSE << >>

\* builtin::Signal: an object id and a signal name; it holds no reference.
from_object_signal(object, signal_name) ==
    [object_id |-> instance_id(object), name |-> signal_name]

\* Signal::name, Signal::object_id, Signal::object
Signal_name(signal) == signal.name
Signal_object_id(signal) == << signal.object_id >>
Signal_object(signal) == instance_from_id(signal.object_id)

\* TypedSignal::receiver_object: self.object.to_owned_object()
receiver_object(self) == self.object

\* Mutant of to_untyped: the signal is made for the object but without the
\* name of the typed signal.
to_untyped_Unnamed(self) == from_object_signal(receiver_object(self), "")

\* TypedSignal::to_untyped
to_untyped(self) == from_object_signal(receiver_object(self), self.name)

\* handle.to_untyped(); of, the TypedSignal it was made from, is kept for the
\* properties.
ToUntyped(h) ==
    /\ handles[h].live
    /\ alive[handles[h].object]
    /\ Len(untyped) < MaxUntyped
    /\ untyped' = Append(untyped, [signal |-> to_untyped(handles[h]), of |-> h])
    /\ lastOp' = "to_untyped"
    /\ UNCHANGED << slots, handles, outcome >>
    /\ UNCHANGED << safeguards_balanced, IS_EDITOR, hostVars, callables, connections,
                    connection_registry, nextHandle, dropCount, opLog, invoked >>
    /\ UNCHANGED notAccessor

\* No typed signal of object o is in scope: a TypedSignal borrows its object
\* or holds a Gd of it.
NoneInScope(o) ==
    \A h \in DOMAIN handles : handles[h].object = o => ~handles[h].live

\* ------------------------------------------------------------------------
\* Operations of the threads specification: the registry's functions, step by
\* step, on threads that share the static Mutex.

\* Mutant of lock_free: the lock is handed out while another thread holds it.
lock_free_Always(m) == TRUE

\* __GODOT_SIGNAL_CONNECTIONS_REGISTRY.lock(): a thread gets the guard only
\* while no thread holds it.
lock_free(m) == m = ""

\* drop_weak() called by thread t on the handles drops.
DisposedBy(drops, t) ==
    [h \in 1 .. MaxHandles |-> IF Occurrences(drops, h) > 0 THEN t ELSE disposer[h]]

\* What a step of a thread inside the registry leaves alone.
ThreadFrame ==
    /\ invoked' = << >>
    /\ UNCHANGED << safeguards_balanced, alive, userHolds >>
    /\ UNCHANGED notThreads

\* Thread t connects a callable and enters store_signal_connection, up to the
\* lock: IS_EDITOR.get_or_init(..) and the early return.
BeginStore(t, o, sig, hint) ==
    LET is_editor == get_or_init(IS_EDITOR, hint)
    IN  /\ pc[t] = "idle"
        /\ alive[o] /\ userHolds[o]
        /\ callables < MaxCallables
        /\ callables' = from_local_fn(callables)
        /\ inner_connect_untyped(o, sig, from_local_fn(callables), << >>)
        /\ IS_EDITOR' = is_editor
        /\ IF NotEditor(is_editor)
           THEN UNCHANGED << pc, local >>
           ELSE /\ pc' = [pc EXCEPT ![t] = "store_lock"]
                /\ local' = [local EXCEPT ![t] =
                                [obj |-> o, sig |-> sig, cb |-> from_local_fn(callables),
                                 kept |-> << >>]]
        /\ lastOp' = "begin_store"
        /\ opLog' = << >>
        /\ UNCHANGED << connection_registry, nextHandle, dropCount, refCount,
                        mutex, inserter, disposer >>
        /\ ThreadFrame

\* Mutant of StoreLock: the thread goes on without waiting for the lock.
StoreLock_NoWait(t) ==
    /\ pc[t] = "store_lock"
    /\ mutex' = t
    /\ pc' = [pc EXCEPT ![t] = "store_prune"]
    /\ lastOp' = "lock"
    /\ opLog' = << >>
    /\ UNCHANGED << IS_EDITOR, callables, connections, connection_registry, nextHandle,
                    dropCount, refCount, local, inserter, disposer >>
    /\ ThreadFrame

\* let mut connection_registry = __GODOT_SIGNAL_CONNECTIONS_REGISTRY.lock().unwrap()
StoreLock(t) ==
    /\ pc[t] = "store_lock"
    /\ lock_free(mutex)
    /\ mutex' = t
    /\ pc' = [pc EXCEPT ![t] = "store_prune"]
    /\ lastOp' = "lock"
    /\ opLog' = << >>
    /\ UNCHANGED << IS_EDITOR, callables, connections, connection_registry, nextHandle,
                    dropCount, refCount, local, inserter, disposer >>
    /\ ThreadFrame

\* prune_stale_connections(&mut connection_registry); kept remembers what the
\* prune left, for the properties.
StorePrune(t) ==
    LET pruned == prune_stale_connections(connection_registry)
    IN  /\ pc[t] = "store_prune"
        /\ connection_registry' = pruned.kept
        /\ dropCount' = DropAll(pruned.drops)
        /\ disposer' = DisposedBy(pruned.drops, t)
        /\ opLog' = pruned.log
        /\ local' = [local EXCEPT ![t].kept = pruned.kept]
        /\ pc' = [pc EXCEPT ![t] = "store_push"]
        /\ lastOp' = "prune"
        /\ UNCHANGED << IS_EDITOR, callables, connections, nextHandle, refCount,
                        mutex, inserter >>
        /\ ThreadFrame

\* Mutant of StorePush: the guard outlives the call (it is leaked).
StorePush_KeepsGuard(t) ==
    /\ pc[t] = "store_push"
    /\ connection_registry' =
           Append(connection_registry,
                  UnsafeConnectHandle(Some(local[t].obj, nextHandle),
                                      local[t].sig, local[t].cb))
    /\ refCount' = clone_weak(refCount, local[t].obj)
    /\ nextHandle' = nextHandle + 1
    /\ inserter' = [inserter EXCEPT ![nextHandle] = t]
    /\ pc' = [pc EXCEPT ![t] = "idle"]
    /\ local' = [local EXCEPT ![t] = NoLocal]
    /\ lastOp' = "push"
    /\ opLog' = << >>
    /\ UNCHANGED << IS_EDITOR, callables, connections, dropCount, disposer, mutex >>
    /\ ThreadFrame

\* clone_weak(), connection_registry.push(..) and the return, which drops the
\* guard. The push writes behind the vector as this thread holds it; under the
\* guard that is the shared vector, and were the vector written by another
\* thread since this one pruned it (a data race) the push could land on either.
StorePush(t) ==
    /\ pc[t] = "store_push"
    /\ \E vec \in {connection_registry, local[t].kept} :
           connection_registry' =
               Append(vec,
                      UnsafeConnectHandle(Some(local[t].obj, nextHandle),
                                          local[t].sig, local[t].cb))
    /\ refCount' = clone_weak(refCount, local[t].obj)
    /\ nextHandle' = nextHandle + 1
    /\ inserter' = [inserter EXCEPT ![nextHandle] = t]
    /\ mutex' = ""
    /\ pc' = [pc EXCEPT ![t] = "idle"]
    /\ local' = [local EXCEPT ![t] = NoLocal]
    /\ lastOp' = "push"
    /\ opLog' = << >>
    /\ UNCHANGED << IS_EDITOR, callables, connections, dropCount, disposer >>
    /\ ThreadFrame

\* Thread t calls prune_stored_signal_connections.
BeginDrain(t) ==
    /\ pc[t] = "idle"
    /\ pc' = [pc EXCEPT ![t] = "drain_lock"]
    /\ lastOp' = "begin_drain"
    /\ opLog' = << >>
    /\ UNCHANGED << IS_EDITOR, callables, connections, connection_registry, nextHandle,
                    dropCount, refCount, mutex, local, inserter, disposer >>
    /\ ThreadFrame

\* let mut connection_registry = __GODOT_SIGNAL_CONNECTIONS_REGISTRY.lock().unwrap()
DrainLock(t) ==
    /\ pc[t] = "drain_lock"
    /\ lock_free(mutex)
    /\ mutex' = t
    /\ pc' = [pc EXCEPT ![t] = "drain_sweep"]
    /\ lastOp' = "lock"
    /\ opLog' = << >>
    /\ UNCHANGED << IS_EDITOR, callables, connections, connection_registry, nextHandle,
                    dropCount, refCount, local, inserter, disposer >>
    /\ ThreadFrame

\* prune_stored_signal_connections on thread t: the is_empty() test, the
\* warning, the drain loop and the return, which drops the guard.
DrainSweep(t) ==
    LET r == DrainAll(connection_registry, connections)
    IN  /\ pc[t] = "drain_sweep"
        /\ connection_registry' = r.registry
        /\ connections' = r.conns
        /\ dropCount' = DropAll(r.drops)
        /\ disposer' = DisposedBy(r.drops, t)
        /\ opLog' = r.log
        /\ mutex' = ""
        /\ pc' = [pc EXCEPT ![t] = "idle"]
        /\ lastOp' = "sweep"
        /\ UNCHANGED << IS_EDITOR, callables, nextHandle, refCount, local, inserter >>
        /\ ThreadFrame

\* ------------------------------------------------------------------------
\* Operations of the race specification: the drain loop of
\* prune_stored_signal_connections one host call at a time, the host free to
\* destroy objects between any two of them.

\* What a step of the drain loop leaves alone.
DrainFrame ==
    /\ UNCHANGED << IS_EDITOR, callables, nextHandle, refCount, inserter >>
    /\ ThreadFrame

\* The entry the drain iterator of thread t has yielded.
Yielded(t) == Head(local[t].kept)

\* receiver_object.drop_weak() on the yielded entry, and the loop goes on.
DropYielded(t) ==
    /\ dropCount' = DropAll(<< Yielded(t).receiver_object.hid >>)
    /\ disposer' = DisposedBy(<< Yielded(t).receiver_object.hid >>, t)
    /\ local' = [local EXCEPT ![t].kept = Tail(local[t].kept)]
    /\ pc' = [pc EXCEPT ![t] = "drain_next"]

\* The is_empty() test, the warning and connection_registry.drain(..), which
\* takes every entry out of the vector.
DrainTake(t) ==
    /\ pc[t] = "drain_sweep"
    /\ IF connection_registry = << >>
       THEN /\ mutex' = ""
            /\ pc' = [pc EXCEPT ![t] = "idle"]
            /\ opLog' = << >>
            /\ lastOp' = "sweep"
            /\ UNCHANGED << connection_registry, local >>
       ELSE /\ local' = [local EXCEPT ![t] = [NoLocal EXCEPT !.kept = connection_registry]]
            /\ connection_registry' = << >>
            /\ pc' = [pc EXCEPT ![t] = "drain_next"]
            /\ opLog' = << Warn >>
            /\ lastOp' = "take"
            /\ UNCHANGED mutex
    /\ UNCHANGED << connections, dropCount, disposer >>
    /\ DrainFrame

\* The next turn of the loop: the end of the iterator (the function returns and
\* drops the guard), or receiver_object.is_instance_valid() on the entry
\* yielded, with the drop_weak() and continue of an invalid receiver.
DrainNext(t) ==
    /\ pc[t] = "drain_next"
    /\ IF local[t].kept = << >>
       THEN /\ mutex' = ""
            /\ pc' = [pc EXCEPT ![t] = "idle"]
            /\ local' = [local EXCEPT ![t] = NoLocal]
            /\ opLog' = << >>
            /\ lastOp' = "sweep"
            /\ UNCHANGED << dropCount, disposer >>
       ELSE IF ~is_instance_valid(Yielded(t).receiver_object)
            THEN /\ DropYielded(t)
                 /\ opLog' = << Call("is_instance_valid", Yielded(t).receiver_object, FALSE),
                                Call("drop_weak", Yielded(t).receiver_object, FALSE) >>
                 /\ lastOp' = "skip"
                 /\ UNCHANGED mutex
            ELSE /\ pc' = [pc EXCEPT ![t] = "drain_is_connected"]
                 /\ opLog' = << Call("is_instance_valid", Yielded(t).receiver_object, TRUE) >>
                 /\ lastOp' = "validated"
                 /\ UNCHANGED << mutex, local, dropCount, disposer >>
    /\ UNCHANGED << connection_registry, connections >>
    /\ DrainFrame

\* What the host answers to is_connected on the receiver of entry: on a
\* destroyed receiver the call goes through a dangling pointer, and either
\* answer can come back.
IsConnectedAnswers(entry) ==
    IF alive[entry.receiver_object.obj]
    THEN {is_connected(connections, entry.receiver_object.obj,
                       entry.signal_name, entry.callable)}
    ELSE BOOLEAN

\* receiver_object.is_connected(&*signal_name, &callable), with the
\* drop_weak() that follows a negative answer.
DrainIsConnected(t) ==
    /\ pc[t] = "drain_is_connected"
    /\ \E connected \in IsConnectedAnswers(Yielded(t)) :
          /\ lastOp' = "is_connected"
          /\ IF connected
             THEN /\ pc' = [pc EXCEPT ![t] = "drain_disconnect"]
                  /\ opLog' = << Call("is_connected", Yielded(t).receiver_object, TRUE) >>
                  /\ UNCHANGED << local, dropCount, disposer >>
             ELSE /\ DropYielded(t)
                  /\ opLog' = << Call("is_connected", Yielded(t).receiver_object, FALSE),
                                 Call("drop_weak", Yielded(t).receiver_object, TRUE) >>
    /\ UNCHANGED << connection_registry, connections, mutex >>
    /\ DrainFrame

\* receiver_object.disconnect(&*signal_name, &callable) and the drop_weak()
\* that ends the loop body. A destroyed receiver has no connection left.
DrainDisconnect(t) ==
    /\ pc[t] = "drain_disconnect"
    /\ connections' = disconnect(connections, Yielded(t).receiver_object.obj,
                                 Yielded(t).signal_name, Yielded(t).callable)
    /\ DropYielded(t)
    /\ opLog' = << Call("disconnect", Yielded(t).receiver_object, TRUE),
                   Call("drop_weak", Yielded(t).receiver_object, TRUE) >>
    /\ lastOp' = "disconnect"
    /\ UNCHANGED << connection_registry, mutex >>
    /\ DrainFrame

\* ------------------------------------------------------------------------
\* #[derive(ClassExtension)]: parse_fields, parse_group, sort_fields_by_group.
\* An Option is the empty sequence (None) or a sequence of one (Some); a string
\* is the sequence of its characters; indexes count from 0 as usize does.

Quote == "\""

\* The token text of the string literal "cs", and of the identifier cs.
Lit(cs) == << Quote >> \o cs \o << Quote >>
Ident(cs) == cs

\* What parser.handle_expr("group") and parser.handle_expr("subgroup") find.
GroupExprs == {Lit(<< "a" >>), Lit(<< "b" >>), Ident(<< "a" >>)}
SubgroupExprs == {Lit(<< "x" >>), Lit(<< "a" >>)}

OptionOf(S) == {<< >>} \cup {<< x >> : x \in S}

\* The #[export] attribute of a named field: absent, one the parser rejects,
\* or one with its group and subgroup keys.
NoAttr == [present |-> FALSE, valid |-> TRUE, group |-> << >>, subgroup |-> << >>]
Malformed == [present |-> TRUE, valid |-> FALSE, group |-> << >>, subgroup |-> << >>]
Export(g, s) == [present |-> TRUE, valid |-> TRUE, group |-> g, subgroup |-> s]

\* The type paths of the fields.
PlainType == << "i64" >>
OnReadyType == << "OnReady" >>
OnEditorType == << "godot", "obj", "OnEditor" >>

\* The named fields a struct is made of.
FieldKinds ==
    {[ty |-> t, export |-> e] :
        t \in {OnReadyType, OnEditorType}, e \in {NoAttr, Export(<< >>, << >>)}}
    \cup {[ty |-> PlainType, export |-> e] :
             e \in {NoAttr, Malformed}
                   \cup {Export(g, s) : g \in OptionOf(GroupExprs),
                                        s \in OptionOf(SubgroupExprs)}}

\* The struct whose fields are kinds, named by their place of declaration.
Named(kinds) ==
    [i \in DOMAIN kinds |-> [name |-> i, ty |-> kinds[i].ty, export |-> kinds[i].export]]

Structs == {Named(kinds) : kinds \in UNION {[1 .. n -> FieldKinds] : n \in 0 .. MaxFields}}

\* util::path_ends_with_complex(&field.ty, expected): the last segment of the
\* path is expected.
path_ends_with_complex(ty, expected) == ty[Len(ty)] = expected

\* Iterator::position: the index of the first element satisfying the
\* predicate, None if there is none; hits are the places of the elements
\* that satisfy it.
position(hits) ==
    IF hits = {} THEN << >>
    ELSE << (CHOOSE i \in hits : \A k \in hits : i <= k) - 1 >>

\* Mutant of parse_group: every name is appended.
parse_group_AlwaysPush(expr, groups) ==
    IF expr = << >>
    THEN [id |-> << >>, groups |-> groups]
    ELSE [id |-> << Len(groups) >>, groups |-> Append(groups, expr[1])]

\* FieldGroup::parse_group; expr is what parser.handle_expr(..).unwrap_or(None)
\* gave, groups the names table.
parse_group(expr, groups) ==
    IF expr = << >>
    THEN [id |-> << >>, groups |-> groups]
    ELSE LET group == expr[1]
             group_index == position({i \in DOMAIN groups : groups[i] = group})
         IN  IF group_index # << >>
             THEN [id |-> group_index, groups |-> groups]
             ELSE [id |-> << Len(Append(groups, group)) - 1 >>,
                   groups |-> Append(groups, group)]

\* FieldGroup::new_from_kv: the group key first, the subgroup key second.
new_from_kv(attr, groups) ==
    LET g == parse_group(attr.group, groups)
        sg == parse_group(attr.subgroup, g.groups)
    IN  [group |-> [group_name_index |-> g.id, subgroup_name_index |-> sg.id],
         groups |-> sg.groups]

\* error!(field.ty.clone(), ..): OnReady<T> is not supported for class
\* extensions for now
OnReadyError(ty) ==
    [at |-> ty, message |-> "OnReady<T> is not supported for class extensions for now"]

\* What KvParser::parse(..)?, FieldExport::new_from_kv(..)? and
\* parser.finish()? leave parse_fields with on an attribute they reject.
AttributeError(named_field) == [at |-> named_field.name, message |-> "attribute"]

\* Body of the loop of parse_fields over named_fields: st carries all_fields,
\* errors, groups and the error a `?` returned with.
ParseField(st, named_field) ==
    LET errors ==
            IF path_ends_with_complex(named_field.ty, "OnReady")
                  \/ path_ends_with_complex(named_field.ty, "OnEditor")
            THEN Append(st.errors, OnReadyError(named_field.ty))
            ELSE st.errors
    IN  IF ~named_field.export.present
        THEN [st EXCEPT
                !.errors = errors,
                !.all_fields =
                    Append(st.all_fields,
                           [name |-> named_field.name, ty |-> named_field.ty,
                            group |-> << >>])]
        ELSE IF ~named_field.export.valid
             THEN [st EXCEPT !.errors = errors,
                             !.aborted = << AttributeError(named_field) >>]
             ELSE LET kv == new_from_kv(named_field.export, st.groups)
                  IN  [st EXCEPT
                          !.errors = errors,
                          !.groups = kv.groups,
                          !.all_fields =
                              Append(st.all_fields,
                                     [name |-> named_field.name, ty |-> named_field.ty,
                                      group |-> << kv.group >>])]

RECURSIVE ParseLoop(_, _)
ParseLoop(st, rest) ==
    IF rest = << >> \/ st.aborted # << >> THEN st
    ELSE ParseLoop(ParseField(st, Head(rest)), Tail(rest))

\* parse_fields: Ok(Fields) or the error of the first rejected attribute.
parse_fields(struct) ==
    LET st == ParseLoop([all_fields |-> << >>, errors |-> << >>, groups |-> << >>,
                         aborted |-> << >>], struct)
    IN  IF st.aborted # << >>
        THEN [ok |-> FALSE, error |-> st.aborted[1], fields |-> NoFields]
        ELSE [ok |-> TRUE, error |-> << >>,
              fields |-> [groups |-> st.groups, all_fields |-> st.all_fields,
                          errors |-> st.errors]]

\* str::trim_matches
RECURSIVE trim_start_matches(_, _)
trim_start_matches(str, ch) ==
    IF str # << >> /\ Head(str) = ch THEN trim_start_matches(Tail(str), ch) ELSE str

RECURSIVE trim_end_matches(_, _)
trim_end_matches(str, ch) ==
    IF str # << >> /\ str[Len(str)] = ch
    THEN trim_end_matches(SubSeq(str, 1, Len(str) - 1), ch)
    ELSE str

trim_matches(str, ch) == trim_end_matches(trim_start_matches(str, ch), ch)

\* Fields::format_groups
format_groups(groups) == [i \in DOMAIN groups |-> trim_matches(groups[i], Quote)]

\* ExportGroupOrdering::root and ExportGroupOrdering::child
root == [identifier |-> << >>, subgroups |-> << >>]
child(identifier) == [identifier |-> << identifier >>, subgroups |-> << >>]

\* ExportGroupOrdering::priority: the position of identifier among the
\* subgroups, pushed last if it is not there.
priority(self, identifier) ==
    LET found == position({i \in DOMAIN self.subgroups :
                               self.subgroups[i].identifier[1] = identifier})
    IN  IF found # << >>
        THEN [position |-> found[1], self |-> self]
        ELSE [position |-> Len(self.subgroups),
              self |-> [self EXCEPT !.subgroups = Append(self.subgroups, child(identifier))]]

\* usize::cmp
cmp(a, b) == IF a < b THEN "Less" ELSE IF a = b THEN "Equal" ELSE "Greater"

Compared(result, ordering) == [result |-> result, ordering |-> ordering]

\* Mutant of sort_by_group_priority: a field with a group (or subgroup) sorts
\* before one without.
RECURSIVE sort_by_group_priority_GroupedFirst(_, _, _, _)
sort_by_group_priority_GroupedFirst(field_a, field_b, ordering, stage) ==
    LET lhs == IF stage = "Group" THEN field_a.group_name_index
               ELSE field_a.subgroup_name_index
        rhs == IF stage = "Group" THEN field_b.group_name_index
               ELSE field_b.subgroup_name_index
        next_stage == IF stage = "Group" THEN << "SubGroup" >> ELSE << >>
    IN  CASE lhs # << >> /\ rhs = << >> -> Compared("Less", ordering)
          [] lhs = << >> /\ rhs # << >> -> Compared("Greater", ordering)
          [] lhs # << >> /\ rhs # << >> ->
                IF lhs[1] = rhs[1]
                THEN IF next_stage = << >>
                     THEN Compared("Equal", ordering)
                     ELSE LET next == priority(ordering, lhs[1])
                              inner == sort_by_group_priority_GroupedFirst(
                                           field_a, field_b,
                                           next.self.subgroups[next.position + 1],
                                           next_stage[1])
                          IN  Compared(inner.result,
                                       [next.self EXCEPT
                                           !.subgroups[next.position + 1] = inner.ordering])
                ELSE LET priority_a == priority(ordering, lhs[1])
                         priority_b == priority(priority_a.self, rhs[1])
                     IN  Compared(cmp(priority_a.position, priority_b.position),
                                  priority_b.self)
          [] OTHER ->
                IF next_stage = << >>
                THEN Compared("Equal", ordering)
                ELSE sort_by_group_priority_GroupedFirst(field_a, field_b, ordering,
                                                         next_stage[1])

\* sort_by_group_priority: the Ordering of two exported fields at stage
\* "Group" or "SubGroup", and ordering as the comparison leaves it.
RECURSIVE sort_by_group_priority(_, _, _, _)
sort_by_group_priority(field_a, field_b, ordering, stage) ==
    LET lhs == IF stage = "Group" THEN field_a.group_name_index
               ELSE field_a.subgroup_name_index
        rhs == IF stage = "Group" THEN field_b.group_name_index
               ELSE field_b.subgroup_name_index
        next_stage == IF stage = "Group" THEN << "SubGroup" >> ELSE << >>
    IN  CASE lhs # << >> /\ rhs = << >> -> Compared("Greater", ordering)
          [] lhs = << >> /\ rhs # << >> -> Compared("Less", ordering)
          [] lhs # << >> /\ rhs # << >> ->
                IF lhs[1] = rhs[1]
                THEN IF next_stage = << >>
                     THEN Compared("Equal", ordering)
                     ELSE LET next == priority(ordering, lhs[1])
                              inner == sort_by_group_priority(
                                           field_a, field_b,
                                           next.self.subgroups[next.position + 1],
                                           next_stage[1])
                          IN  Compared(inner.result,
                                       [next.self EXCEPT
                                           !.subgroups[next.position + 1] = inner.ordering])
                ELSE LET priority_a == priority(ordering, lhs[1])
                         priority_b == priority(priority_a.self, rhs[1])
                     IN  Compared(cmp(priority_a.position, priority_b.position),
                                  priority_b.self)
          [] OTHER ->
                IF next_stage = << >>
                THEN Compared("Equal", ordering)
                ELSE sort_by_group_priority(field_a, field_b, ordering, next_stage[1])

\* The closure sort_fields_by_group sorts with.
compare(a, b, initial_ordering) ==
    CASE a.group # << >> /\ b.group # << >> ->
            sort_by_group_priority(a.group[1], b.group[1], initial_ordering, "Group")
      [] a.group # << >> /\ b.group = << >> -> Compared("Greater", initial_ordering)
      [] a.group = << >> /\ b.group # << >> -> Compared("Less", initial_ordering)
      [] OTHER -> Compared("Equal", initial_ordering)

Sorting(v, ordering) == [v |-> v, ordering |-> ordering]

\* The insertion of v[tail] into the sorted v[1 .. tail - 1], the way the
\* standard library sorts a short slice: the element is compared with its left
\* neighbour and moves past it while it is less. sort_unstable_by does not say
\* where an element ends among those it is equal to: it may stop or move on.
RECURSIVE insert_tail(_, _, _)
insert_tail(v, tail, ordering) ==
    IF tail = 1
    THEN {Sorting(v, ordering)}
    ELSE LET c == compare(v[tail], v[tail - 1], ordering)
             moved == [v EXCEPT ![tail] = v[tail - 1], ![tail - 1] = v[tail]]
         IN  CASE c.result = "Less" -> insert_tail(moved, tail - 1, c.ordering)
               [] c.result = "Greater" -> {Sorting(v, c.ordering)}
               [] OTHER -> {Sorting(v, c.ordering)}
                              \cup insert_tail(moved, tail - 1, c.ordering)

\* slice::sort_unstable_by over v[from .. ], v[1 .. from - 1] sorted: every
\* way it can end.
RECURSIVE sort_unstable_by(_, _, _)
sort_unstable_by(v, from, ordering) ==
    IF from > Len(v)
    THEN {Sorting(v, ordering)}
    ELSE UNION {sort_unstable_by(s.v, from + 1, s.ordering) :
                   s \in insert_tail(v, from, ordering)}

\* sort_fields_by_group: the Fields values it can leave.
sort_fields_by_group(fs) ==
    {[fs EXCEPT !.groups = format_groups(fs.groups), !.all_fields = s.v] :
        s \in sort_unstable_by(fs.all_fields, 2, root)}

\* derive_class_extension, up to parse_fields(named_fields)?
ParseFields ==
    LET parsed == parse_fields(named_fields)
    IN  /\ derived = "start"
        /\ IF parsed.ok
           THEN /\ fields' = parsed.fields
                /\ derived' = "parsed"
                /\ UNCHANGED output
           ELSE /\ output' = Err(parsed.error)
                /\ derived' = "done"
                /\ UNCHANGED fields
        /\ UNCHANGED << named_fields, vars, notDerive >>

\* sort_fields_by_group(&mut fields)
SortFieldsByGroup ==
    /\ derived = "parsed"
    /\ fields' \in sort_fields_by_group(fields)
    /\ derived' = "sorted"
    /\ UNCHANGED << named_fields, output, vars, notDerive >>

\* The rest of derive_class_extension: errors and godot_exports_impl are
\* made and dropped, the tokens returned are those of quote! {}.
ReturnTokens ==
    /\ derived = "sorted"
    /\ output' = Ok(<< >>)
    /\ derived' = "done"
    /\ UNCHANGED << named_fields, fields, vars, notDerive >>

\* The parameter tuples of the arities 0 .. MaxArity.
AllParamTuples == UNION {[1 .. n -> ArgValues] : n \in 0 .. MaxArity}

\* The instances a receiver is called on.
Instances == {NoInstance, Ref(Emitter), RefMut(Emitter), Ref(Receiver), RefMut(Receiver)}

\* The parameter tuples of the arities 0 .. MaxProbedArity, every field with
\* the same value.
ProbeTuples ==
    {<< >>} \cup UNION {{[i \in 1 .. n |-> v] : v \in ArgValues} : n \in 1 .. MaxProbedArity}

\* function.call(maybe_instance, params) on a function of the matching shape
\* and arity: the call resolves to an impl if one exists for the arity, and a
\* program with a call that does not resolve is not built.
CallReceiver(maybe_instance, params) ==
    /\ invocation' = [instance |-> maybe_instance, params |-> params,
                      resolved |-> Implemented(Len(params)),
                      entries |-> IF Implemented(Len(params))
                                  THEN call(maybe_instance, params) ELSE << >>]
    /\ UNCHANGED << vars, dispatchVars, accessorVars, threadVars, deriveVars >>

\* ------------------------------------------------------------------------
\* Specification

Init ==
    /\ safeguards_balanced \in BOOLEAN
    /\ IS_EDITOR = << >>
    /\ alive = [o \in Objects |-> TRUE]
    /\ refCount = [o \in Objects |-> IF IsRefCounted(o) THEN 1 ELSE 0]
    /\ userHolds = [o \in Objects |-> TRUE]
    /\ callables = 0
    /\ connections = << >>
    /\ connection_registry = << >>
    /\ nextHandle = 1
    /\ dropCount = [h \in 1 .. MaxHandles |-> 0]
    /\ lastOp = "init"
    /\ opLog = << >>
    /\ invoked = << >>
    /\ ExtIdle

Next ==
    \/ \E o \in Objects : \E sig \in SignalsOf(o) : Connect(o, sig)
    \/ \E o \in Objects : \E sig \in SignalsOf(o) : ConnectSelf(o, sig)
    \/ \E o \in Objects : \E sig \in SignalsOf(o), other \in Objects : ConnectObj(o, sig, other)
    \/ \E o \in Objects : \E sig \in SignalsOf(o), hint \in BOOLEAN : ConnectBuilderDone(o, sig, hint)
    \/ \E o \in Objects : \E sig \in SignalsOf(o), cb \in 1 .. MaxCallables, hint \in BOOLEAN :
           Record(o, sig, cb, hint)
    \/ Drain
    \/ \E o \in Objects : \E sig \in SignalsOf(o) : EmitTuple(o, sig)
    \/ \E o \in Objects : \E sig \in SignalsOf(o), cb \in 1 .. MaxCallables : Disconnect(o, sig, cb)
    \/ \E o \in Objects : Free(o)
    \/ \E o \in Objects : DropGd(o)

Spec == Init /\ [][Next]_vars

\* The dispatch specification: the build without the registry's safeguards.
InitDispatch ==
    /\ safeguards_balanced = FALSE
    /\ IS_EDITOR = << >>
    /\ alive = [o \in Objects |-> TRUE]
    /\ refCount = [o \in Objects |-> IF IsRefCounted(o) THEN 1 ELSE 0]
    /\ userHolds = [o \in Objects |-> TRUE]
    /\ callables = 0
    /\ connections = << >>
    /\ connection_registry = << >>
    /\ nextHandle = 1
    /\ dropCount = [h \in 1 .. MaxHandles |-> 0]
    /\ lastOp = "init"
    /\ opLog = << >>
    /\ invoked = << >>
    /\ ExtIdle

NextDispatch ==
    \/ \E sig \in SignalsOf(Emitter) : ConnectFn(sig)
    \/ \E sig \in SignalsOf(Emitter) : ConnectSelfMethod(sig)
    \/ \E sig \in SignalsOf(Emitter) : ConnectObjMethod(sig, Receiver)
    \/ \E sig \in SignalsOf(Emitter), instance \in BuilderInstances :
           BuilderDone(sig, instance, << >>)
    \/ \E sig \in SignalsOf(Emitter) : \E args \in ParamTuples(sig) : EmitArgs(sig, args)
    \/ Free(Emitter)

\* The accessor specification
InitAccessor == InitDispatch

NextAccessor ==
    \/ \E o \in Objects : Signals(o)
    \/ \E c \in DOMAIN slots : \E signal_name \in SignalsOf(slots[c].owner) :
           Extract(c, signal_name)
    \/ \E h \in DOMAIN handles : DropTypedSignal(h)

\* The untyped specification: typed signals turned into untyped ones, and
\* objects destroyed once no typed signal of theirs is in scope.
InitUntyped == InitDispatch

NextUntyped ==
    \/ \E o \in Objects : alive[o] /\ userHolds[o] /\ Signals(o)
    \/ \E c \in DOMAIN slots : \E signal_name \in SignalsOf(slots[c].owner) :
           alive[slots[c].owner] /\ Extract(c, signal_name)
    \/ \E h \in DOMAIN handles : DropTypedSignal(h)
    \/ \E h \in DOMAIN handles : ToUntyped(h)
    \/ \E o \in Objects : NoneInScope(o) /\ Free(o)
    \/ \E o \in Objects : NoneInScope(o) /\ DropGd(o)

\* The threads specification: the safeguarded build, two threads.
InitThreads ==
    /\ safeguards_balanced = TRUE
    /\ IS_EDITOR = << >>
    /\ alive = [o \in Objects |-> TRUE]
    /\ refCount = [o \in Objects |-> IF IsRefCounted(o) THEN 1 ELSE 0]
    /\ userHolds = [o \in Objects |-> TRUE]
    /\ callables = 0
    /\ connections = << >>
    /\ connection_registry = << >>
    /\ nextHandle = 1
    /\ dropCount = [h \in 1 .. MaxHandles |-> 0]
    /\ lastOp = "init"
    /\ opLog = << >>
    /\ invoked = << >>
    /\ ExtIdle

NextThreads ==
    \/ \E t \in Threads, o \in Objects, hint \in BOOLEAN : \E sig \in SignalsOf(o) :
           BeginStore(t, o, sig, hint)
    \/ \E t \in Threads : StoreLock(t)
    \/ \E t \in Threads : StorePrune(t)
    \/ \E t \in Threads : StorePush(t)
    \/ \E t \in Threads : BeginDrain(t)
    \/ \E t \in Threads : DrainLock(t)
    \/ \E t \in Threads : DrainSweep(t)
    \/ \E o \in Objects : Free(o)
    \/ \E o \in Objects : DropGd(o)

\* The race specification: the threads specification with the drain loop run
\* one host call at a time.
InitRace == InitThreads

NextRace ==
    \/ \E t \in Threads, o \in Objects, hint \in BOOLEAN : \E sig \in SignalsOf(o) :
           BeginStore(t, o, sig, hint)
    \/ \E t \in Threads : StoreLock(t)
    \/ \E t \in Threads : StorePrune(t)
    \/ \E t \in Threads : StorePush(t)
    \/ \E t \in Threads : BeginDrain(t)
    \/ \E t \in Threads : DrainLock(t)
    \/ \E t \in Threads : DrainTake(t)
    \/ \E t \in Threads : DrainNext(t)
    \/ \E t \in Threads : DrainIsConnected(t)
    \/ \E t \in Threads : DrainDisconnect(t)
    \/ \E o \in Objects : Free(o)
    \/ \E o \in Objects : DropGd(o)

\* The derive specification: #[derive(ClassExtension)] expanded on one struct.
InitDerive ==
    /\ safeguards_balanced = FALSE
    /\ IS_EDITOR = << >>
    /\ alive = [o \in Objects |-> TRUE]
    /\ refCount = [o \in Objects |-> IF IsRefCounted(o) THEN 1 ELSE 0]
    /\ userHolds = [o \in Objects |-> TRUE]
    /\ callables = 0
    /\ connections = << >>
    /\ connection_registry = << >>
    /\ nextHandle = 1
    /\ dropCount = [h \in 1 .. MaxHandles |-> 0]
    /\ lastOp = "init"
    /\ opLog = << >>
    /\ invoked = << >>
    /\ DispatchIdle /\ AccessorIdle /\ ThreadsIdle /\ invocation = NoCall
    /\ named_fields \in Structs
    /\ fields = NoFields
    /\ derived = "start"
    /\ output = NoOutput

NextDerive ==
    \/ ParseFields
    \/ SortFieldsByGroup
    \/ ReturnTokens

\* The receiver specification
InitCall == InitDispatch

NextCall ==
    \E maybe_instance \in Instances, params \in AllParamTuples :
        CallReceiver(maybe_instance, params)

\* The panic specification: callables whose closure may panic, connected
\* through the untyped Signal.
InitPanic == InitDispatch

NextPanic ==
    \/ \E sig \in SignalsOf(Emitter), panics \in BOOLEAN : SignalConnect(sig, panics)
    \/ \E sig \in SignalsOf(Emitter) : \E args \in ParamTuples(sig) : EmitArgs(sig, args)
    \/ \E sig \in SignalsOf(Emitter), cb \in 1 .. MaxCallables : Disconnect(Emitter, sig, cb)
    \/ Free(Emitter)

allVars == << vars, extVars >>

SpecUntyped == InitUntyped /\ [][NextUntyped]_allVars

\* The builder specification: connections of plain functions made by connect
\* and by every builder chain, and emissions.
InitBuilder == InitDispatch

NextBuilder ==
    \/ \E sig \in SignalsOf(Emitter) : ConnectFn(sig)
    \/ \E sig \in SignalsOf(Emitter), chain \in BuilderChains :
           BuilderDone(sig, NoInstance, chain)
    \/ \E sig \in SignalsOf(Emitter) : \E args \in ParamTuples(sig) : EmitArgs(sig, args)
    \/ Free(Emitter)

SpecBuilder == InitBuilder /\ [][NextBuilder]_allVars

\* The arity specification: calls of receivers of every arity up to
\* MaxProbedArity.
InitArity == InitDispatch

NextArity ==
    \E maybe_instance \in Instances, params \in ProbeTuples :
        CallReceiver(maybe_instance, params)

SpecArity == InitArity /\ [][NextArity]_allVars

\* The flags specification: builder connections with and without flags.
InitFlags == InitDispatch

NextFlags ==
    \/ \E sig \in SignalsOf(Emitter), chain \in FlagChains :
           BuilderDone(sig, NoInstance, chain)
    \/ \E sig \in SignalsOf(Emitter) : \E args \in ParamTuples(sig) : EmitArgs(sig, args)
    \/ Free(Emitter)

SpecFlags == InitFlags /\ [][NextFlags]_allVars

SpecPanic == InitPanic /\ [][NextPanic]_allVars

SpecCall == InitCall /\ [][NextCall]_allVars

SpecThreads == InitThreads /\ [][NextThreads]_allVars
SpecRace == InitRace /\ [][NextRace]_allVars

\* Scheduling of the threads specification: a thread inside the critical
\* section keeps running, and a thread parked in lock() gets the mutex if it
\* is free again and again.
Scheduling ==
    \A t \in Threads :
        /\ SF_allVars(StoreLock(t))
        /\ SF_allVars(DrainLock(t))
        /\ WF_allVars(StorePrune(t))
        /\ WF_allVars(StorePush(t))
        /\ WF_allVars(DrainSweep(t))

SpecDerive == InitDerive /\ [][NextDerive]_allVars
SpecLive == InitThreads /\ [][NextThreads]_allVars /\ Scheduling

SpecAccessor == InitAccessor /\ [][NextAccessor]_allVars

SpecDispatch == InitDispatch /\ [][NextDispatch]_allVars

TypeOK ==
    /\ safeguards_balanced \in BOOLEAN
    /\ IS_EDITOR \in {<< >>, << TRUE >>, << FALSE >>}
    /\ nextHandle \in 1 .. MaxHandles + 1
    /\ callables \in 0 .. MaxCallables
    /\ Len(connection_registry) <= MaxHandles

\* ------------------------------------------------------------------------
\* Vocabulary of the properties

\* The process runs the safeguarded build and the host answered "editor".
HotReloadable == safeguards_balanced /\ IS_EDITOR = << TRUE >>

DrainRan  == lastOp \in {"drain", "drain_again"}
RecordRan == lastOp \in {"record", "done"}

Entries == DOMAIN connection_registry

InRegistry(h) ==
    \E i \in Entries : connection_registry[i].receiver_object.hid = h

LogHas(name, res) ==
    \E i \in DOMAIN opLog : opLog[i].call = name /\ opLog[i].res = res

\* Entries of the registry whose receiver is gone.
Stale(reg) == {i \in DOMAIN reg : ~is_instance_valid(reg[i].receiver_object)}

StillValid(e) == is_instance_valid(e.receiver_object)

\* ------------------------------------------------------------------------
\* Properties

\* C1: in hot-reloadable mode no callback connected before a drain is invoked
\* by an emit that happens after that drain. Stated for the emit that directly
\* follows the drain: every callable that exists then was connected before the
\* drain, so that emit invokes nothing.
C1_NoCallbackAfterDrain ==
    [][(HotReloadable /\ DrainRan /\ lastOp' = "emit") => invoked' = << >>]_vars

\* C2: in hot-reloadable mode every callable the host holds as connected has a
\* registry entry for its (object, signal name, callable).
C2_ConnectedIsRecorded ==
    HotReloadable =>
        \A i \in DOMAIN connections :
            \E j \in Entries :
                /\ connection_registry[j].receiver_object.obj = connections[i].obj
                /\ connection_registry[j].signal_name = connections[i].sig
                /\ connection_registry[j].callable = connections[i].cb

\* C3: after a drain, no entry the registry held whose receiver is still valid
\* is connected in the host any more, so an emit does not reach its callable.
C3_DrainDisconnects ==
    [][DrainRan' =>
        \A i \in Entries :
            LET e == connection_registry[i]
            IN  StillValid(e) =>
                  /\ ~is_connected(connections', e.receiver_object.obj,
                                   e.signal_name, e.callable)
                  /\ \A k \in DOMAIN Receivers(connections', e.receiver_object.obj,
                                               e.signal_name) :
                        Receivers(connections', e.receiver_object.obj,
                                  e.signal_name)[k] # e.callable]_vars

C3_Witness == DrainRan /\ LogHas("disconnect", TRUE)

\* C4: after a drain the registry is empty, whatever it held.
C4_DrainEmpties == DrainRan => connection_registry = << >>

C4_Witness ==
    /\ DrainRan
    /\ LogHas("is_instance_valid", FALSE)
    /\ LogHas("is_connected", TRUE)
    /\ LogHas("is_connected", FALSE)

\* C5: a drain right after a drain does nothing: no warning, no host call, no
\* disposal, and the registry stays empty.
C5_SecondDrainNoOp ==
    [][(DrainRan /\ DrainRan') =>
        /\ opLog' = << >>
        /\ connection_registry' = << >>
        /\ UNCHANGED << connections, dropCount, alive, refCount >>]_vars

C5_Witness ==
    /\ lastOp = "drain_again"
    /\ \E h \in 1 .. MaxHandles : dropCount[h] > 0

\* C6: a record that finds N entries, M of them with an invalid receiver,
\* leaves the N - M valid ones, in order, followed by the new entry.
C6_RecordPrunes ==
    [][(RecordRan' /\ HotReloadable') =>
        /\ Len(connection_registry')
             = Len(connection_registry) - Cardinality(Stale(connection_registry)) + 1
        /\ SubSeq(connection_registry', 1, Len(connection_registry') - 1)
             = SelectSeq(connection_registry, StillValid)
        /\ connection_registry'[Len(connection_registry')].receiver_object.hid
             = nextHandle]_vars

C6_Witness ==
    /\ RecordRan
    /\ LogHas("drop_weak", FALSE)
    /\ LogHas("is_instance_valid", TRUE)
    /\ Len(connection_registry) = 2

\* C7: no registry operation issues is_connected or disconnect on a receiver
\* that is gone; a handle whose validity check failed is only disposed, and its
\* entry is removed.
C7_InvalidNeverUsed ==
    \A i \in DOMAIN opLog :
        /\ opLog[i].call \in {"is_connected", "disconnect"} => alive[opLog[i].obj]
        /\ (opLog[i].call = "is_instance_valid" /\ ~opLog[i].res) =>
              /\ ~InRegistry(opLog[i].hid)
              /\ \A k \in DOMAIN opLog :
                    (k # i /\ opLog[k].hid = opLog[i].hid) => opLog[k].call = "drop_weak"

C7_Witness ==
    /\ DrainRan
    /\ LogHas("is_instance_valid", FALSE)
    /\ LogHas("disconnect", TRUE)

\* C8: a weak handle is disposed exactly once, when its entry leaves the
\* registry, and never while its entry is still there.
C8_DisposedExactlyOnce ==
    \A h \in 1 .. MaxHandles :
        /\ h >= nextHandle => (dropCount[h] = 0 /\ ~InRegistry(h))
        /\ h < nextHandle =>
              \/ InRegistry(h) /\ dropCount[h] = 0
              \/ ~InRegistry(h) /\ dropCount[h] = 1
        /\ Cardinality({i \in Entries : connection_registry[i].receiver_object.hid = h}) <= 1

C8_Witness ==
    /\ RecordRan
    /\ LogHas("drop_weak", FALSE)
    /\ \E h, g \in 1 .. MaxHandles : h # g /\ dropCount[h] = 1 /\ dropCount[g] = 1

C10_NoOpOutsideEditor ==
    ~HotReloadable =>
        /\ connection_registry = << >>
        /\ nextHandle = 1
        /\ opLog = << >>

C10_Witness ==
    /\ IS_EDITOR = << FALSE >>
    /\ safeguards_balanced
    /\ DrainRan
    /\ connections # << >>

\* C14: a drain that finds entries in the registry issues exactly one warning,
\* and issues it before every other host call of the sweep (validity check,
\* disconnect, disposal); a drain that finds the registry empty issues none.
C14_OneWarningBeforeSweep ==
    [][DrainRan' =>
        IF connection_registry # << >>
        THEN /\ opLog' # << >>
             /\ opLog'[1] = Warn
             /\ \A i \in 2 .. Len(opLog') : opLog'[i].call # "godot_warn"
        ELSE \A i \in DOMAIN opLog' : opLog'[i].call # "godot_warn"]_vars

C14_Witness ==
    /\ DrainRan
    /\ opLog # << >>
    /\ opLog[1] = Warn
    /\ LogHas("disconnect", TRUE)
    /\ LogHas("drop_weak", FALSE)

\* C18: an emit leaves the registry as it is: no entry is added, removed or
\* disposed, no weak handle is made, IS_EDITOR is not asked, and no host call
\* is issued on behalf of the registry.
C18_EmitLeavesRegistry ==
    [][lastOp' = "emit" =>
        /\ UNCHANGED << connection_registry, dropCount, nextHandle, IS_EDITOR >>
        /\ opLog' = << >>]_vars

C18_Witness ==
    /\ lastOp = "emit"
    /\ invoked # << >>
    /\ Stale(connection_registry) # {}

\* C23: the mode is decided once, by the first record of the safeguarded
\* build: only a record fills IS_EDITOR, every such record leaves it filled, a
\* filled IS_EDITOR never changes (the host is not asked again), and a record
\* that finds it filled stores an entry exactly when the stored answer is
\* true, whatever the host would answer now.
C23_ModeDecidedOnce ==
    [][/\ IS_EDITOR # << >> => IS_EDITOR' = IS_EDITOR
       /\ (IS_EDITOR = << >> /\ IS_EDITOR' # << >>) => RecordRan'
       /\ (RecordRan' /\ safeguards_balanced) => IS_EDITOR' # << >>
       /\ (RecordRan' /\ IS_EDITOR # << >>) =>
             IF IS_EDITOR[1]
             THEN nextHandle' = nextHandle + 1 /\ connection_registry' # << >>
             ELSE UNCHANGED << nextHandle, connection_registry >>]_vars

C23_Witness ==
    /\ lastOp = "record"
    /\ IS_EDITOR = << TRUE >>
    /\ nextHandle = 3
    /\ Len(connection_registry) = 2

\* Entry i of the registry names the triple of entry j.
SameTriple(i, j) ==
    /\ connection_registry[i].receiver_object.obj = connection_registry[j].receiver_object.obj
    /\ connection_registry[i].signal_name = connection_registry[j].signal_name
    /\ connection_registry[i].callable = connection_registry[j].callable

\* What the host answers when the drain reaches entry i: the pair is connected
\* and no earlier entry of the sweep has had it disconnected.
StillConnectedAt(i) ==
    /\ is_connected(connections, connection_registry[i].receiver_object.obj,
                    connection_registry[i].signal_name, connection_registry[i].callable)
    /\ \A j \in 1 .. i - 1 : ~SameTriple(i, j)

\* C24: a drain issues a disconnect for an entry with a valid receiver exactly
\* when the host reports the entry's pair as connected at that moment; in both
\* cases the handle is disposed and the entry leaves the registry.
C24_DisconnectIffConnected ==
    [][DrainRan' =>
        \A i \in Entries :
            LET e == connection_registry[i]
            IN  StillValid(e) =>
                  /\ (\E k \in DOMAIN opLog' :
                          /\ opLog'[k].call = "disconnect"
                          /\ opLog'[k].hid = e.receiver_object.hid)
                        <=> StillConnectedAt(i)
                  /\ dropCount'[e.receiver_object.hid]
                        = dropCount[e.receiver_object.hid] + 1
                  /\ connection_registry' = << >>]_vars

C24_Witness ==
    /\ DrainRan
    /\ \E i, k \in DOMAIN opLog :
          /\ i < k
          /\ opLog[i].call = "is_connected" /\ opLog[i].res
          /\ opLog[k].call = "is_connected" /\ ~opLog[k].res
          /\ opLog[i].obj = opLog[k].obj

\* The host no longer holds the pair of entry e.
Disconnected(e) ==
    ~is_connected(connections, e.receiver_object.obj, e.signal_name, e.callable)

\* C25: the prune of a record removes nothing but entries whose receiver is
\* invalid: every entry with a valid receiver is still there afterwards, the
\* same entry, before the entries that followed it, and not disposed, also
\* when the host no longer holds its connection; every entry that left had an
\* invalid receiver.
C25_PruneKeepsValid ==
    [][(RecordRan' /\ HotReloadable') =>
        /\ \A i \in Entries :
              StillValid(connection_registry[i]) =>
                  /\ \E k \in 1 .. Len(connection_registry') - 1 :
                        connection_registry'[k] = connection_registry[i]
                  /\ dropCount'[connection_registry[i].receiver_object.hid] = 0
        /\ \A i \in Entries, j \in Entries :
              (i < j /\ StillValid(connection_registry[i])
                     /\ StillValid(connection_registry[j])) =>
                  \E k, l \in 1 .. Len(connection_registry') - 1 :
                      /\ k < l
                      /\ connection_registry'[k] = connection_registry[i]
                      /\ connection_registry'[l] = connection_registry[j]
        /\ \A i \in Entries :
              (\A k \in DOMAIN connection_registry' :
                  connection_registry'[k] # connection_registry[i])
                => ~StillValid(connection_registry[i])]_vars

C25_Witness ==
    /\ lastOp = "record"
    /\ Len(connection_registry) = 2
    /\ StillValid(connection_registry[1])
    /\ Disconnected(connection_registry[1])

\* Connection c of the host is the triple of some entry of the registry.
Recorded(c) ==
    \E i \in Entries :
        /\ connection_registry[i].receiver_object.obj = c.obj
        /\ connection_registry[i].signal_name = c.sig
        /\ connection_registry[i].callable = c.cb

Unrecorded(c) == ~Recorded(c)

\* C30: a drain takes from the host exactly the connections whose (receiver,
\* signal name, callable) the registry holds: every other connection, also
\* one of the same receiver and the same signal, is still there afterwards,
\* in its place among those that stay.
C30_DrainLeavesOthers ==
    [][DrainRan' => connections' = SelectSeq(connections, Unrecorded)]_vars

C30_Witness ==
    /\ DrainRan
    /\ \E k \in DOMAIN opLog, i \in DOMAIN connections :
          /\ opLog[k].call = "disconnect"
          /\ opLog[k].obj = "refcounted"
          /\ connections[i].obj = "refcounted"
          /\ connections[i].sig = "test_signal"

\* The weak handles of the entries that name the triple of entry i.
HandlesOfTriple(i) ==
    {connection_registry[j].receiver_object.hid : j \in {k \in Entries : SameTriple(i, k)}}

\* C31: a record of a triple the registry already holds appends a second
\* entry with a weak handle of its own; the drain that finds both issues one
\* disconnect for the pair at most, the later entry finding it gone, and
\* disposes each of the handles once.
C31_DuplicateRecords ==
    [][/\ (lastOp' = "record" /\ HotReloadable') =>
             /\ connection_registry' # << >>
             /\ connection_registry'[Len(connection_registry')].receiver_object.hid
                   = nextHandle
             /\ \A i \in Entries :
                   connection_registry[i].receiver_object.hid # nextHandle
       /\ DrainRan' =>
             \A i \in Entries, j \in Entries :
                 (i < j /\ SameTriple(i, j) /\ StillValid(connection_registry[i])) =>
                     /\ connection_registry[i].receiver_object.hid
                           # connection_registry[j].receiver_object.hid
                     /\ Cardinality({k \in DOMAIN opLog' :
                                        /\ opLog'[k].call = "disconnect"
                                        /\ opLog'[k].hid \in HandlesOfTriple(i)}) <= 1
                     /\ dropCount'[connection_registry[i].receiver_object.hid] = 1
                     /\ dropCount'[connection_registry[j].receiver_object.hid] = 1]_vars

C31_Witness ==
    /\ DrainRan
    /\ callables = 1
    /\ Cardinality({k \in DOMAIN opLog : opLog[k].call = "disconnect"}) = 1
    /\ Cardinality({k \in DOMAIN opLog : opLog[k].call = "is_connected"}) = 2
    /\ \E h, g \in 1 .. MaxHandles : h # g /\ dropCount[h] = 1 /\ dropCount[g] = 1

\* The host calls made through a stored handle.
OnHandle(i) == opLog[i].hid # 0

\* C21 as stated: the registry only validity-checks or disposes a stored
\* handle and never calls into the receiver through it.
C21_OnlyCheckedOrDisposed ==
    \A i \in DOMAIN opLog :
        OnHandle(i) => opLog[i].call \in {"is_instance_valid", "drop_weak"}

\* C21, amended: a record only validity-checks or disposes stored handles; a
\* drain also calls is_connected and disconnect on the receiver through the
\* handle, always after that handle was reported valid and before it is
\* disposed; no registry operation invokes a callable.
C21_UsedOnlyWhenValidated ==
    /\ RecordRan =>
          \A i \in DOMAIN opLog :
              OnHandle(i) => opLog[i].call \in {"is_instance_valid", "drop_weak"}
    /\ \A i \in DOMAIN opLog :
          opLog[i].call \in {"is_connected", "disconnect"} =>
              /\ DrainRan
              /\ \E k \in 1 .. i - 1 :
                    /\ opLog[k].call = "is_instance_valid"
                    /\ opLog[k].hid = opLog[i].hid
                    /\ opLog[k].res
              /\ \A k \in 1 .. i - 1 :
                    ~(opLog[k].call = "drop_weak" /\ opLog[k].hid = opLog[i].hid)
    /\ (DrainRan \/ RecordRan) => invoked = << >>

C21_Witness ==
    /\ DrainRan
    /\ LogHas("disconnect", TRUE)
    /\ LogHas("is_connected", FALSE)
    /\ Len(opLog) >= 8

\* ------------------------------------------------------------------------
\* Properties of the dispatch

\* The parameter list the function wrapped by gf is to be entered with when
\* args is emitted.
Expected(gf, args) ==
    IF gf.instance.shape = "unit" THEN args ELSE << gf.instance.obj >> \o args

EmitRan == lastOp = "emit"

\* C11: whatever connect variant made a connection, each emission of its signal
\* enters the connected function exactly once, with the emitted values; after k
\* emissions made while it was connected the function has been entered k times.
C11_EachEmissionInvokesOnce ==
    /\ \A cb \in 1 .. MaxCallables : received[cb] = emitted[cb]
    /\ EmitRan =>
          \A cb \in 1 .. MaxCallables :
              is_connected(connections, lastEmit.obj, lastEmit.sig, cb) =>
                  /\ CallsOf(lastEmit.calls, cb) = 1
                  /\ \A i \in DOMAIN lastEmit.calls :
                        lastEmit.calls[i].cb = cb =>
                            lastEmit.calls[i].actual
                                = Expected(godot_fns[cb], lastEmit.args)

C11_Witness ==
    /\ EmitRan
    /\ lastEmit.args = << "552" >>
    /\ godot_fns[1].kind = "connect_self" /\ received[1] = 2
    /\ godot_fns[2].kind = "builder" /\ received[2] = 1

\* The object a connection's method is meant to run against: the owner of the
\* signal for connect_self, the object handed over for connect_obj and for a
\* builder connection of a method; << >> for a plain function.
TargetOf(cb) ==
    IF godot_fns[cb].kind = "connect_self" THEN << lastEmit.obj >>
    ELSE IF godot_fns[cb].kind = "connect_obj" THEN << Receiver >>
    ELSE IF godot_fns[cb].instance.shape = "unit" THEN << >>
    ELSE << godot_fns[cb].instance.obj >>

Reached(cb) == is_connected(connections, lastEmit.obj, lastEmit.sig, cb)

\* C26: on an emission a connect_self callback is entered on the owner of the
\* signal and writes the owner's state, a connect_obj callback is entered on
\* the other object, not on the owner, and writes that object's state; an
\* object that is the target of no connection reached by the emission is not
\* written.
C26_RunsAgainstItsReceiver ==
    EmitRan =>
        /\ \A i \in DOMAIN lastEmit.calls :
              LET c == lastEmit.calls[i]
              IN  /\ godot_fns[c.cb].kind = "connect_self" =>
                        Head(c.actual) = lastEmit.obj
                  /\ godot_fns[c.cb].kind = "connect_obj" =>
                        Head(c.actual) = Receiver /\ Head(c.actual) # lastEmit.obj
        /\ \A cb \in 1 .. MaxCallables :
              (Reached(cb) /\ TargetOf(cb) # << >>) =>
                  lastEmit.written[TargetOf(cb)[1]] = << lastEmit.args >>
        /\ \A o \in DOMAIN lastEmit.written :
              lastEmit.written[o] # << >> =>
                  \E cb \in 1 .. MaxCallables : Reached(cb) /\ TargetOf(cb) = << o >>

C26_Witness ==
    /\ EmitRan
    /\ lastEmit.args = << "987" >>
    /\ \E cb \in 1 .. MaxCallables : Reached(cb) /\ godot_fns[cb].kind = "connect_obj"
    /\ \A cb \in 1 .. MaxCallables : Reached(cb) => godot_fns[cb].kind = "connect_obj"
    /\ lastEmit.written[Receiver] = << << "987" >> >>
    /\ lastEmit.written[Emitter] = << >>

\* Connection i of the host belongs to the signal of the last emission.
OfLastEmit(conns, emit, i) == conns[i].obj = emit.obj /\ conns[i].sig = emit.sig

\* C27: every connect adds one connection of a new callable after the
\* existing ones, also when the same function is already connected to the
\* same signal; an emission enters every connection of its signal once, in the
\* order in which the connections were made.
C27_NoDedupNoReorder ==
    [][/\ lastOp' \in {"connect", "done"} =>
             /\ Len(connections') = Len(connections) + 1
             /\ SubSeq(connections', 1, Len(connections)) = connections
             /\ \A i \in DOMAIN connections :
                   connections[i].cb # connections'[Len(connections')].cb
       /\ EmitRan' =>
             /\ \A i \in DOMAIN connections' :
                   OfLastEmit(connections', lastEmit', i) =>
                       CallsOf(lastEmit'.calls, connections'[i].cb) = 1
             /\ \A i \in DOMAIN connections', j \in DOMAIN connections' :
                   (/\ i < j
                    /\ OfLastEmit(connections', lastEmit', i)
                    /\ OfLastEmit(connections', lastEmit', j)) =>
                       \E k \in DOMAIN lastEmit'.calls, l \in DOMAIN lastEmit'.calls :
                           /\ k < l
                           /\ lastEmit'.calls[k].cb = connections'[i].cb
                           /\ lastEmit'.calls[l].cb = connections'[j].cb]_allVars

C27_Witness ==
    /\ EmitRan
    /\ Len(connections) = 2
    /\ connections[1].sig = connections[2].sig
    /\ godot_fns[1] = godot_fns[2]
    /\ godot_fns[1].kind = "connect"
    /\ Len(lastEmit.calls) = 2
    /\ lastEmit.calls[1].cb = 1 /\ lastEmit.calls[2].cb = 2

\* C17: a connected callable whose closure panics is still entered exactly once
\* by each emission; the panic does not leave the callable, so the emit returns
\* to its caller, the callables after it are invoked, and the emitter is still
\* there to be used.
C17_PanicContained ==
    /\ \A cb \in 1 .. MaxCallables : received[cb] = emitted[cb]
    /\ EmitRan =>
          /\ ~lastEmit.unwound
          /\ alive[Emitter] /\ userHolds[Emitter]
          /\ \A cb \in 1 .. MaxCallables :
                is_connected(connections, lastEmit.obj, lastEmit.sig, cb) =>
                    CallsOf(lastEmit.calls, cb) = 1

C17_Witness ==
    /\ EmitRan
    /\ godot_fns[1].panics
    /\ godot_fns[2].kind = "callable" /\ ~godot_fns[2].panics
    /\ lastEmit.calls = << [cb |-> 1, actual |-> << "987" >>],
                           [cb |-> 2, actual |-> << "987" >>] >>
    /\ received[1] = 2

\* ------------------------------------------------------------------------
\* Properties of the accessor

\* A TypedSignal taken from collection c is still in scope.
LiveFrom(c) == \E h \in DOMAIN handles : handles[h].from = c /\ handles[h].live

\* A TypedSignal was taken from collection c at some time.
TakenFrom(c) == \E h \in DOMAIN handles : handles[h].from = c

ExtractRan == lastOp = "extract"

\* C12: an extract from a slot whose TypedSignal is still in scope panics with
\* the one-signal-at-a-time message and makes no TypedSignal; an extract that
\* returns found the slot full, returns a TypedSignal of the slot's object and
\* the asked name, and leaves the slot empty.
C12_SecondCheckoutAborts ==
    [][ExtractRan' =>
        LET c == outcome'.collection
        IN  /\ LiveFrom(c) =>
                  /\ outcome'.kind = "panic"
                  /\ outcome'.message = OneSignalAtATime
                  /\ handles' = handles
            /\ outcome'.kind = "returned" =>
                  /\ slots[c].internal_obj = << slots[c].owner >>
                  /\ slots'[c].internal_obj = << >>
                  /\ Len(handles') = Len(handles) + 1
                  /\ handles'[Len(handles')].object = slots[c].owner
                  /\ handles'[Len(handles')].name = outcome'.signal_name]_allVars

C12_Witness ==
    /\ ExtractRan
    /\ outcome.kind = "panic"
    /\ LiveFrom(outcome.collection)

\* C13 as claimed: the end of a TypedSignal refills the slot it was taken from,
\* and an extract from a slot none of whose TypedSignals is still in scope
\* returns.
C13_RestoredWhenFinalized ==
    [][/\ (ExtractRan' /\ ~LiveFrom(outcome'.collection)) => outcome'.kind = "returned"
       /\ lastOp' = "drop_signal" =>
             \A h \in DOMAIN handles :
                 (handles[h].live /\ ~handles'[h].live) =>
                     slots'[handles[h].from].internal_obj # << >>]_allVars

\* C13 as amended: a slot is never refilled. The end of a TypedSignal leaves
\* every slot as it is, each signals() call makes a collection with a full
\* slot, and an extract panics exactly when an earlier extract took from the
\* same collection, whether or not that TypedSignal is still in scope.
C13_FreshSlotPerAccessor ==
    [][/\ ExtractRan' =>
             (outcome'.kind = "panic" <=> TakenFrom(outcome'.collection))
       /\ lastOp' = "drop_signal" => slots' = slots
       /\ lastOp' = "signals" =>
             /\ SubSeq(slots', 1, Len(slots)) = slots
             /\ slots'[Len(slots')].internal_obj # << >>]_allVars

C13_Witness ==
    /\ ExtractRan
    /\ outcome.kind = "returned"
    /\ Len(handles) = 2
    /\ ~handles[1].live
    /\ handles[1].from # handles[2].from
    /\ handles[1].object = handles[2].object

\* C22: the untyped signal made from a typed signal names the object and the
\* signal name of the typed signal; once the object is destroyed it still
\* reports the object's id and no longer returns the object.
C22_UntypedNamesSameSignal ==
    \A u \in DOMAIN untyped :
        LET signal == untyped[u].signal
            typed  == handles[untyped[u].of]
        IN  /\ Signal_name(signal) = typed.name
            /\ Signal_object_id(signal) = << instance_id(typed.object) >>
            /\ alive[typed.object] => Signal_object(signal) = << typed.object >>
            /\ ~alive[typed.object] => Signal_object(signal) = << >>

C22_Witness ==
    \E u, v \in DOMAIN untyped :
        /\ ~alive[handles[untyped[u].of].object]
        /\ alive[handles[untyped[v].of].object]
        /\ untyped[u].signal.name = "test_signal"

\* ------------------------------------------------------------------------
\* Properties of the threads

\* Thread t is between the prune and the push of store_signal_connection.
BetweenPruneAndPush(t) == pc[t] = "store_push"

\* Thread t reads or writes the registry vector.
InCritical(t) == pc[t] \in {"store_prune", "store_push", "drain_sweep"}

\* C15: between the prune and the append of one record no other record or
\* drain is inside the registry, and the registry the append finds is the one
\* the prune left.
C15_PruneAppendAtomic ==
    \A t \in Threads :
        BetweenPruneAndPush(t) =>
            /\ mutex = t
            /\ connection_registry = local[t].kept
            /\ \A u \in Threads \ {t} : ~InCritical(u)

C15_Witness ==
    \E t, u \in Threads :
        /\ BetweenPruneAndPush(t)
        /\ pc[u] = "drain_lock"
        /\ LogHas("drop_weak", FALSE)
        /\ connection_registry = << >>

\* Thread t is inside store_signal_connection, past the early return.
Recording(t) == pc[t] \in {"store_lock", "store_prune", "store_push"}

\* Entry e of the registry is not in reg.
GoneFrom(reg, e) == \A k \in DOMAIN reg : reg[k] # e

\* C32: in hot-reloadable mode no record is lost, whatever the interleaving:
\* every record call that has returned has made one weak handle, every handle
\* not disposed has exactly one entry, an entry leaves the registry only by a
\* drain or because its receiver is invalid, and a push keeps every entry
\* the registry held.
C32_NoRecordLost ==
    [][HotReloadable' =>
        /\ callables' = (nextHandle' - 1) + Cardinality({t \in Threads : Recording(t)'})
        /\ \A h \in 1 .. MaxHandles :
              h < nextHandle' =>
                  Cardinality({i \in DOMAIN connection_registry' :
                                  connection_registry'[i].receiver_object.hid = h})
                    = IF dropCount'[h] = 0 THEN 1 ELSE 0
        /\ \A i \in Entries :
              GoneFrom(connection_registry', connection_registry[i]) =>
                  \/ lastOp' = "sweep"
                  \/ lastOp' = "prune" /\ ~StillValid(connection_registry[i])
        /\ lastOp' = "push" =>
              SubSeq(connection_registry', 1, Len(connection_registry))
                  = connection_registry]_allVars

C32_Witness ==
    /\ \A t \in Threads : pc[t] = "idle"
    /\ lastOp = "push"
    /\ Len(connection_registry) = 2
    /\ inserter[connection_registry[1].receiver_object.hid]
         # inserter[connection_registry[2].receiver_object.hid]
    /\ StillValid(connection_registry[1]) /\ StillValid(connection_registry[2])

\* C34: the registry is reusable after a drain: a record right after a drain
\* leaves exactly one entry, the recorded one, and a drain right after a
\* record warns again, leaves none of the recorded connections with the host,
\* disposes every handle and empties the registry; the connection of a lone
\* entry is disconnected by that drain.
C34_ReusableAfterDrain ==
    [][/\ (DrainRan /\ lastOp' = "record" /\ HotReloadable') =>
              /\ Len(connection_registry') = 1
              /\ connection_registry'[1].receiver_object.hid = nextHandle
              /\ dropCount'[nextHandle] = 0
       /\ (lastOp = "record" /\ DrainRan' /\ HotReloadable) =>
              /\ opLog'[1] = Warn
              /\ connection_registry' = << >>
              /\ \A i \in Entries :
                    /\ ~is_connected(connections',
                                     connection_registry[i].receiver_object.obj,
                                     connection_registry[i].signal_name,
                                     connection_registry[i].callable)
                    /\ dropCount'[connection_registry[i].receiver_object.hid] = 1
              /\ Len(connection_registry) = 1 =>
                    \E k \in DOMAIN opLog' :
                        opLog'[k] = Call("disconnect",
                                         connection_registry[1].receiver_object, TRUE)]_vars

\* A second drain has swept the entry recorded after the first one: handle 1
\* was disposed while its receiver lived, and this drain saw handle 2 alone.
C34_Witness ==
    /\ HotReloadable /\ DrainRan
    /\ \A o \in Objects : alive[o]
    /\ dropCount[1] = 1 /\ dropCount[2] = 1
    /\ connection_registry = << >>
    /\ LogHas("disconnect", TRUE)
    /\ opLog[1] = Warn
    /\ \A k \in DOMAIN opLog : opLog[k].hid \in {0, 2}

\* sort_fields_by_group has returned.
Sorted == derived \in {"sorted", "done"} /\ output.result # "Err"

Exported(f) == f.group # << >>
GroupOf(f) == f.group[1].group_name_index
SubgroupOf(f) == f.group[1].subgroup_name_index

\* Places of the exported fields in all_fields.
ExportedAt == {i \in DOMAIN fields.all_fields : Exported(fields.all_fields[i])}

\* 0: neither group nor subgroup, 1: a subgroup only, 2: a group.
Rank(f) ==
    IF GroupOf(f) # << >> THEN 2 ELSE IF SubgroupOf(f) # << >> THEN 1 ELSE 0

\* C36: after sort_fields_by_group the exported fields with neither group nor
\* subgroup come first, then those with a subgroup only, then those with a
\* group; inside a group the fields without a subgroup come before those with
\* one, and the fields of one subgroup are next to each other.
C36_SortedByGroup ==
    Sorted =>
        \A i, j \in ExportedAt :
            i < j =>
                LET a == fields.all_fields[i]
                    b == fields.all_fields[j]
                IN  /\ Rank(a) <= Rank(b)
                    /\ (GroupOf(a) # << >> /\ GroupOf(a) = GroupOf(b)) =>
                           (SubgroupOf(a) # << >> => SubgroupOf(b) # << >>)
                    /\ (SubgroupOf(a) # << >> /\ a.group = b.group) =>
                           \A k \in i .. j : fields.all_fields[k].group = a.group

\* The three ranks, declared last to first, sorted first to last.
C36_Witness ==
    /\ Sorted
    /\ Len(fields.all_fields) = 3
    /\ \A i \in 1 .. 3 :
          /\ Exported(fields.all_fields[i])
          /\ Rank(fields.all_fields[i]) = i - 1
          /\ fields.all_fields[i].name = 4 - i

\* The least of a non-empty set of numbers.
Least(S) == CHOOSE n \in S : \A m \in S : n <= m

\* Where group g was first declared on the struct, and where subgroup sg of
\* group g (<< >>: of no group) was.
GroupDeclared(g) ==
    Least({fields.all_fields[k].name : k \in {i \in ExportedAt :
                                                GroupOf(fields.all_fields[i]) = g}})

SubgroupDeclared(g, sg) ==
    Least({fields.all_fields[k].name : k \in {i \in ExportedAt :
                                                /\ GroupOf(fields.all_fields[i]) = g
                                                /\ SubgroupOf(fields.all_fields[i]) = sg}})

\* C37: after sort_fields_by_group the groups, and the subgroups of one group,
\* appear in the order of their first declaration on the struct.
C37_DeclarationOrder ==
    Sorted =>
        \A i, j \in ExportedAt :
            i < j =>
                LET a == fields.all_fields[i]
                    b == fields.all_fields[j]
                IN  /\ (GroupOf(a) # << >> /\ GroupOf(b) # << >>
                            /\ GroupOf(a) # GroupOf(b)) =>
                           GroupDeclared(GroupOf(a)) < GroupDeclared(GroupOf(b))
                    /\ (GroupOf(a) # << >> /\ GroupOf(a) = GroupOf(b)
                            /\ SubgroupOf(a) # << >> /\ SubgroupOf(b) # << >>
                            /\ SubgroupOf(a) # SubgroupOf(b)) =>
                           SubgroupDeclared(GroupOf(a), SubgroupOf(a))
                               < SubgroupDeclared(GroupOf(b), SubgroupOf(b))

\* Two fields the closure of sort_fields_by_group finds equal.
CompareEqual(a, b) == a.group = b.group

\* C38: sort_fields_by_group leaves fields that compare equal (the same group
\* and subgroup, or both not exported) in the order of their declaration.
C38_EqualKeepOrder ==
    Sorted =>
        \A i, j \in DOMAIN fields.all_fields :
            (i < j /\ CompareEqual(fields.all_fields[i], fields.all_fields[j])) =>
                fields.all_fields[i].name < fields.all_fields[j].name

\* The type of a named field is OnReady or OnEditor.
Unsupported(named_field) ==
    named_field.ty \in {OnReadyType, OnEditorType}

\* C39: a field of type OnReady or OnEditor does not end the parse: every
\* field of a struct that parses is in all_fields, each such field has its
\* error among the collected ones, and the tokens derive_class_extension
\* returns hold every collected error.
C39_ErrorReported ==
    (derived # "start" /\ output.result # "Err") =>
        /\ \A k \in DOMAIN named_fields :
              /\ \E i \in DOMAIN fields.all_fields : fields.all_fields[i].name = k
              /\ Unsupported(named_fields[k]) =>
                    \E e \in DOMAIN fields.errors :
                        fields.errors[e] = OnReadyError(named_fields[k].ty)
        /\ output.result = "Ok" =>
              \A e \in DOMAIN fields.errors :
                  \E t \in DOMAIN output.tokens : output.tokens[t] = fields.errors[e]

\* The names the attributes of the struct give, in the order parse_fields
\* meets them: the group of a field before its subgroup.
RECURSIVE Mentions(_)
Mentions(struct) ==
    IF struct = << >> THEN << >>
    ELSE Head(struct).export.group \o Head(struct).export.subgroup
             \o Mentions(Tail(struct))

\* The first occurrence of every element of seq, in order.
RECURSIVE FirstOccurrences(_)
FirstOccurrences(seq) ==
    IF seq = << >> THEN << >>
    ELSE LET front == FirstOccurrences(SubSeq(seq, 1, Len(seq) - 1))
             last == seq[Len(seq)]
         IN  IF \E k \in DOMAIN front : front[k] = last THEN front
             ELSE Append(front, last)

\* The identifier of name expr (an Option) names that entry of the table.
Identifies(id, expr, table) ==
    IF expr = << >> THEN id = << >>
    ELSE id # << >> /\ id[1] + 1 \in DOMAIN table /\ table[id[1] + 1] = expr[1]

\* C40: as parse_fields returns it, the names table holds every name once, in
\* the order the names were first met, and the identifier parse_group gave for
\* a name is the index of that name: two identifiers are equal exactly when
\* the names are.
C40_IdentifierPerName ==
    derived = "parsed" =>
        /\ \A p, q \in DOMAIN fields.groups :
              fields.groups[p] = fields.groups[q] => p = q
        /\ fields.groups = FirstOccurrences(Mentions(named_fields))
        /\ \A i \in ExportedAt :
              LET f == fields.all_fields[i]
                  attr == named_fields[f.name].export
              IN  /\ Identifies(GroupOf(f), attr.group, fields.groups)
                  /\ Identifies(SubgroupOf(f), attr.subgroup, fields.groups)
        /\ \A i, j \in ExportedAt :
              LET f == fields.all_fields[i]
                  g == fields.all_fields[j]
              IN  (GroupOf(f) # << >> /\ GroupOf(g) # << >>) =>
                      (GroupOf(f) = GroupOf(g)
                          <=> named_fields[f.name].export.group
                                  = named_fields[g.name].export.group)

\* Three fields parsed, the third naming the group of the first again.
C40_Witness ==
    /\ derived = "parsed"
    /\ Len(fields.all_fields) = 3
    /\ Len(fields.groups) = 2
    /\ ExportedAt = {1, 2, 3}
    /\ GroupOf(fields.all_fields[1]) = << 0 >>
    /\ GroupOf(fields.all_fields[2]) = << 1 >>
    /\ GroupOf(fields.all_fields[3]) = << 0 >>

\* Thread t is inside a function of the registry.
Inside(t) == pc[t] # "idle"

CallOnDestroyed(name) ==
    \E i \in DOMAIN opLog : opLog[i].call = name /\ ~alive[opLog[i].obj]

\* C33: the drain never issues is_connected or disconnect on a receiver that
\* is destroyed at the moment of the call, also when the host destroys
\* receivers while the drain runs.
C33_NoCallOnDestroyed ==
    ~CallOnDestroyed("is_connected") /\ ~CallOnDestroyed("disconnect")

\* C20: a weak handle is disposed only by the thread that inserted its entry.
\* The registry keeps no record of the inserting thread: the prune of a record
\* and the drain call drop_weak on whichever thread runs them.
C20_DisposedByInserter ==
    \A h \in 1 .. MaxHandles :
        disposer[h] # "" => disposer[h] = inserter[h]

\* ------------------------------------------------------------------------
\* Properties of the receiver abstraction

\* C16: for every arity N, 0 included, and each of the three shapes, call
\* enters the wrapped function exactly once, with the instance first when the
\* shape has one, followed by exactly the N arguments in the order of the tuple.
C16_CallPassesArgsInOrder ==
    invocation # NoCall =>
        LET actual == invocation.entries[1]
            N      == Len(invocation.params)
            off    == IF invocation.instance.shape = "unit" THEN 0 ELSE 1
        IN  /\ Len(invocation.entries) = 1
            /\ Len(actual) = N + off
            /\ off = 1 => actual[1] = invocation.instance.obj
            /\ \A i \in 1 .. N : actual[i + off] = invocation.params[i]

C16_Witness ==
    /\ invocation.instance = RefMut(Receiver)
    /\ invocation.params = << "987", "552", "552" >>
    /\ invocation.entries = << << Receiver, "987", "552", "552" >> >>

\* C29 as stated: the receiver abstraction is implemented for exactly the
\* arities 0 through 9.
C29_AritiesZeroToNine ==
    invocation # NoCall =>
        (invocation.resolved <=> Len(invocation.params) <= 9)

\* C29, amended: the receiver abstraction is implemented for exactly the
\* arities 0 through 10, for each of the three shapes: a call of such an
\* arity enters the function once with all its arguments, and no impl exists
\* for a larger arity.
C29_AritiesZeroToTen ==
    invocation # NoCall =>
        /\ invocation.resolved <=> Len(invocation.params) <= 10
        /\ invocation.resolved =>
              /\ Len(invocation.entries) = 1
              /\ Len(invocation.entries[1])
                    = Len(invocation.params)
                        + (IF invocation.instance.shape = "unit" THEN 0 ELSE 1)
        /\ ~invocation.resolved => invocation.entries = << >>

C29_Witness ==
    /\ invocation.instance = Ref(Receiver)
    /\ Len(invocation.params) = 10
    /\ invocation.resolved
    /\ Len(invocation.entries[1]) = 11

\* ------------------------------------------------------------------------
\* Properties of the builder

\* The builder calls behind a callable; connect(f) configures nothing.
ChainOf(kind) ==
    IF kind = "connect" THEN << >>
    ELSE CHOOSE chain \in BuilderChains : BuilderKind(chain) = kind

AxesOf(kind) == {ChainOf(kind)[i] : i \in DOMAIN ChainOf(kind)}

ConnectedTo(cb) == {i \in DOMAIN connections : connections[i].cb = cb}

\* What the host holds of callable cb: the signal, the flags and the thread
\* mode of the callable.
HostRegistration(cb) ==
    LET c == connections[CHOOSE i \in ConnectedTo(cb) : TRUE]
    IN  [obj |-> c.obj, sig |-> c.sig, flags |-> c.flags, sync |-> godot_fns[cb].sync]

\* The entries into the function of cb made by the last emission.
RECURSIVE EntriesOf(_, _)
EntriesOf(calls, cb) ==
    IF calls = << >> THEN << >>
    ELSE (IF Head(calls).cb = cb THEN << Head(calls).actual >> ELSE << >>)
             \o EntriesOf(Tail(calls), cb)

BothConnected(cb1, cb2) ==
    /\ cb1 # cb2
    /\ ConnectedTo(cb1) # {} /\ ConnectedTo(cb2) # {}
    /\ HostRegistration(cb1).sig = HostRegistration(cb2).sig

\* C19: two connections of a function to one signal whose configured axes are
\* the same set, in whatever order the builder calls were made, and with
\* connect(f) counting as the builder chain without configuration, have the
\* same host registration and are entered alike by an emission.
C19_BuilderEquivalent ==
    \A cb1 \in 1 .. callables, cb2 \in 1 .. callables :
        (/\ BothConnected(cb1, cb2)
         /\ AxesOf(godot_fns[cb1].kind) = AxesOf(godot_fns[cb2].kind)) =>
            /\ HostRegistration(cb1) = HostRegistration(cb2)
            /\ EntriesOf(lastEmit.calls, cb1) = EntriesOf(lastEmit.calls, cb2)

C19_Witness ==
    /\ EmitRan
    /\ callables = 2
    /\ BothConnected(1, 2)
    /\ godot_fns[1].kind = "builder.sync.flags"
    /\ godot_fns[2].kind = "builder.flags.sync"
    /\ EntriesOf(lastEmit.calls, 1) # << >>

\* The bits of ConnectFlags set in the integer the host was given.
BitsOf(n) == {b \in ConnectFlagBits : (n \div BitValue(b)) % 2 = 1}

\* C28: done() hands the configured flags to the host unchanged, and calls
\* flags() on the host call only when flags were configured: the connection
\* the host then holds carries exactly the configured bits, or the host's
\* default when none were configured.
C28_FlagsForwarded ==
    lastOp = "done" =>
        LET c == connections[Len(connections)]
        IN  /\ c.sig = lastConnect.call.signal
            /\ c.cb = lastConnect.call.callable
            /\ IF lastConnect.configured = << >>
               THEN /\ lastConnect.call.flags = << >>
                    /\ c.flags = 0
               ELSE /\ lastConnect.call.flags # << >>
                    /\ BitsOf(lastConnect.call.flags[1]) = lastConnect.configured[1]
                    /\ c.flags = lastConnect.call.flags[1]

C28_Witness ==
    /\ lastOp = "done"
    /\ Len(connections) = 2
    /\ connections[1].flags = 0
    /\ lastConnect.configured = << {"PERSIST", "REFERENCE_COUNTED"} >>
    /\ BitsOf(connections[2].flags) = {"PERSIST", "REFERENCE_COUNTED"}

====
